---- MODULE Spec2Model ----
(***************************************************************************)
(* Order scheduler (backend/order_queue.py), order store                   *)
(* (backend/database.py), browser-session registry                         *)
(* (backend/services/browser_service.py) and the HTTP handlers of          *)
(* backend/app.py that change order status.                                *)
(*                                                                         *)
(* The scheduler runs on one asyncio event loop: code between two awaits   *)
(* is atomic, so every action below is one such segment.                   *)
(***************************************************************************)
EXTENDS Integers, Sequences, FiniteSets, TLC

(***************************************************************************)
(* Bounds of the model.                                                    *)
(***************************************************************************)
NumOrders == 1
MaxTasks == 2
QueueOrders == 2
QueueTasks == 2
DispatchOrders == 3
StoreRows == 2
StoreClients == 2
RegistrySessions == 1
MaxSetting == 2
MaxRetries == 1
MaxPriority == 2
MaxPollers == 2
AgentOrders == 1
AgentTasks == 1
CancelOrders == 1
CancelTasks == 1
LifeOrders == 2
LifeTasks == 2
DeleteOrders == 1
DeleteTasks == 2
ShutdownOrders == 1
ShutdownTasks == 1
InstanceAgents == 2
MaxCalls == 2


(***************************************************************************)
(* database.py: OrderStatus, OrderPriority, AutomationMethod.              *)
(***************************************************************************)
PENDING == "pending"
PROCESSING == "processing"
COMPLETED == "completed"
FAILED == "failed"
CANCELLED == "cancelled"
REQUIRES_HUMAN == "requires_human"
MANUAL_CONTROL == "manual_control"
OrderStatus ==
  {PENDING, PROCESSING, COMPLETED, FAILED, CANCELLED, REQUIRES_HUMAN, MANUAL_CONTROL}

LOW == 1
NORMAL == 2
HIGH == 3
URGENT == 4
OrderPriority == {LOW, NORMAL, HIGH, URGENT}

NOVA_ACT == "nova_act"
STRANDS == "strands"
AutomationMethod == {NOVA_ACT, STRANDS}

\* order_queue.py: QueueStatus
RUNNING == "running"
PAUSED == "paused"
STOPPED == "stopped"
QueueStatus == {RUNNING, PAUSED, STOPPED}

\* order_queue.py, _load_queue_settings: the settings it reads carry no
\* max_queue_size, so the ceiling is always the default of the lookup.
DEFAULT_MAX_QUEUE_SIZE == 500

\* A row that does not exist (never created, or deleted).
ABSENT == "absent"

VARIABLES
  orders,            \* the orders table: id -> row (status ABSENT: no row)
  next_id,           \* next order id create_order hands out
  use_postgres,      \* DatabaseManager.use_postgres: which backend is configured
  db_call,           \* get_next_order calls of concurrent store clients
  status,            \* OrderQueue.status
  paused,            \* OrderQueue.paused
  max_concurrent,    \* OrderQueue.max_concurrent
  pollers,           \* live _process_queue tasks: not yet run, and asleep
  shutdown_event,    \* OrderQueue._shutdown_event
  processing_orders, \* OrderQueue.processing_orders: order id -> task (0: no entry)
  active_agents,     \* OrderQueue.active_agents: order id -> agent (0: no entry)
  tasks,             \* the _process_order tasks, by task id
  next_task,         \* next task id asyncio.create_task hands out
  agents,            \* the agent instance each task created
  strands_lock,      \* StrandsAgent._session_lock: holder first, then waiters
  strands_active,    \* StrandsAgent._active_sessions
  cancel_call,       \* OrderQueue.cancel_order: the call in progress or last made, by order
  resume_call,       \* resume_nova_act_after_captcha calls in progress
  retries,           \* number of retry_order calls made
  bs,                \* the global BrowserService: created?, db_manager attached?
  active_clients,    \* BrowserService.active_clients: session id -> client
  active_sessions,   \* BrowserService.active_sessions: session id -> session
  cleanup_call,      \* the cleanup_session call in progress
  queue_task,        \* OrderQueue.queue_task: the state of the poll loop it refers to
  max_queue_size,    \* OrderQueue.max_queue_size
  add_call,          \* OrderQueue.add_order: the last call and how it ended
  stop_call,         \* OrderQueue.stop: the call in progress or last made
  delete_call,       \* _force_delete_order_impl: the call in progress or last made
  sweep_call,        \* BrowserService.cleanup_all_sessions: the call in progress
  shutdown           \* perform_graceful_shutdown: the coordinator and its children

\* The ids of the order rows and of the task slots the queue can use.
OrderIds == DOMAIN orders

TaskIds == DOMAIN tasks

storeVars == <<orders, next_id, use_postgres, db_call>>
queueVars == <<status, paused, max_concurrent, pollers, shutdown_event,
               processing_orders,
               active_agents, tasks, next_task, agents, strands_lock,
               strands_active>>
handlerVars == <<cancel_call, resume_call, retries>>
registryVars == <<bs, active_clients, active_sessions, cleanup_call>>
lifecycleVars == <<queue_task, max_queue_size, add_call, stop_call, delete_call,
                   sweep_call, shutdown>>
vars == <<storeVars, queueVars, handlerVars, registryVars, lifecycleVars>>

(***************************************************************************)
(* The order store: database.py, DatabaseManager.                          *)
(***************************************************************************)
\* Values a progress write can carry (order_queue.py and the agents).
ProgressValues == {0, 10, 30, 75, 100}

\* An argument left at its default None.
NONE == "None"

AbsentRow ==
  [status |-> ABSENT, priority |-> NORMAL, automation_method |-> NOVA_ACT,
   progress |-> 0, requires_human_review |-> FALSE,
   started_at |-> 0, completed_at |-> 0]

\* A timestamp column holds 0 while it is NULL, 1 once it has been written and
\* 2 once it has been written again (every write stores a new now()).
Stamp(v) == IF v = 0 THEN 1 ELSE 2

\* created_at: ids are handed out in creation order and the clock only moves
\* forward, so the creation time of a row is its position in that order.
created_at(o) == o

Exists(o) == orders[o].status # ABSENT

\* create_order: a new PENDING row with the given priority and method.
NewRow(priority, method) ==
  [status |-> PENDING, priority |-> priority, automation_method |-> method,
   progress |-> 0, requires_human_review |-> FALSE,
   started_at |-> 0, completed_at |-> 0]

\* get_next_order, the query: PENDING rows ordered by priority desc,
\* created_at asc, first one; rows locked by another transaction are skipped
\* (FOR UPDATE SKIP LOCKED; SQLite takes no row lock, so locked is empty).
PendingRows(ords, locked) ==
  {o \in DOMAIN ords : ords[o].status = PENDING /\ o \notin locked}

\* The ordering with the priority ascending: the lowest priority comes first.
BeforeAscending(ords, o, p) ==
  \/ ords[o].priority < ords[p].priority
  \/ ords[o].priority = ords[p].priority /\ created_at(o) < created_at(p)

\* ORDER BY priority DESC, created_at ASC: row o comes before row p.
Before(ords, o, p) ==
  \/ ords[o].priority > ords[p].priority
  \/ ords[o].priority = ords[p].priority /\ created_at(o) < created_at(p)

FirstPending(ords, locked) ==
  LET cand == PendingRows(ords, locked)
  IN IF cand = {} THEN 0
     ELSE CHOOSE o \in cand : \A p \in cand \ {o} : Before(ords, o, p)

\* get_next_order, the update of the selected row and the commit.
MarkProcessing(ords, o) ==
  [ords EXCEPT ![o].status = PROCESSING, ![o].started_at = Stamp(@)]

\* An optional argument of update_order_status: left out, or Arg(v).
Omitted == {}

Arg(v) == {v}

Given(arg) == CHOOSE v \in arg : TRUE

\* update_order_status: status is always written; the optional fields only
\* when given; then the timestamps by the new status.  For a row that does
\* not exist it raises ValueError and nothing is written.
UpdateOrderStatus(ords, o, st, prog, rhr) ==
  LET r0 == ords[o]
      r1 == [r0 EXCEPT !.status = st]
      r2 == IF prog # Omitted THEN [r1 EXCEPT !.progress = Given(prog)] ELSE r1
      r3 == IF rhr # Omitted THEN [r2 EXCEPT !.requires_human_review = Given(rhr)]
            ELSE r2
      r4 == IF st = PROCESSING /\ r3.started_at = 0
              THEN [r3 EXCEPT !.started_at = Stamp(@)]
            ELSE IF st \in {COMPLETED, FAILED, CANCELLED}
              THEN [r3 EXCEPT !.completed_at = Stamp(@)]
            ELSE r3
  IN IF r0.status = ABSENT THEN ords ELSE [ords EXCEPT ![o] = r4]

\* cancel_order of the store: UPDATE ... WHERE id = o AND status = 'pending';
\* the number of rows it changed.
DbCancelCount(ords, o) == IF ords[o].status = PENDING THEN 1 ELSE 0

\* The update of cancel_order is not written.
DbCancelNoWrite(ords, o) == ords

\* cancel_order of the store: the rows after the update.
DbCancel(ords, o) ==
  IF ords[o].status = PENDING THEN [ords EXCEPT ![o].status = CANCELLED] ELSE ords

(***************************************************************************)
(* The scheduler: order_queue.py, OrderQueue.                              *)
(***************************************************************************)
\* A task slot nobody has created yet.  A task: the order it was created
\* for and its method, where it is suspended, whether cancel() was called on
\* it, the progress callbacks made, the agent its cleanup is for, the
\* status in the result of process_order, and how the agent's start_session
\* ended: the status in the result it returned, or "raised".
NoTask ==
  [order |-> 0, method |-> NOVA_ACT, pc |-> "unused", cancel_req |-> FALSE,
   stage |-> 0, agent |-> 0, result |-> NONE, session |-> NONE]

\* asyncio.create_task(self._process_order(order))
NewTask(o, method) ==
  [order |-> o, method |-> method, pc |-> "created", cancel_req |-> FALSE,
   stage |-> 0, agent |-> 0, result |-> NONE, session |-> NONE]

\* An agent object: its remote browser client, whether cleanup() was called
\* on it, its _is_processing flag, the number of process_order calls that
\* are past the flag's test and have not ended, and how the last
\* process_order call began.
NoAgent ==
  [client |-> "none", cleanup_invoked |-> FALSE, is_processing |-> FALSE,
   executing |-> 0, last_call |-> NONE]

\* process_order of agent a, up to its try block: a call made while
\* _is_processing is set returns the "Another order is already being
\* processed" result; any other call sets the flag and goes on.
ProcessOrderEnter(ag, a) ==
  IF ag[a].is_processing
    THEN [ag EXCEPT ![a].last_call = "rejected"]
    ELSE [ag EXCEPT ![a].is_processing = TRUE, ![a].executing = @ + 1,
                    ![a].last_call = "accepted"]

\* process_order of agent a ends, by return, exception or cancellation: the
\* finally clause clears the flag.
ProcessOrderLeave(ag, a) ==
  [ag EXCEPT ![a].is_processing = FALSE, ![a].executing = @ - 1]

\* asyncio.Task.done()
Done(tk, t) == tk[t].pc \in {"done", "cancelled"}

\* len(self.processing_orders)
NumEntries(po) == Cardinality({o \in DOMAIN po : po[o] # 0})

\* A cancel_order call: where it is, the task it awaits, the order's status
\* and whether its task was unfinished when the call was made, and the value
\* order_queue.cancel_order returned to the endpoint.
NoCall ==
  [pc |-> "idle", task |-> 0, at_call |-> NONE, in_flight |-> FALSE,
   value |-> FALSE]

\* No cleanup_session call is running.
NoCleanup == [pc |-> "idle", id |-> 0, force |-> FALSE, hangs |-> FALSE]

\* No add_order call has been made.
NoAdd == [result |-> NONE, retailer_configured |-> TRUE, method |-> NOVA_ACT]

\* No stop() call is running.  A call: where it is suspended, the entries of
\* its snapshot of processing_orders it has not reached yet, the entry whose
\* task it awaits, and whether its except clause has logged an exception.
NoStop == [pc |-> "idle", todo |-> {}, order |-> 0, task |-> 0, logged |-> FALSE]

\* No force delete is running.  A call: where it is suspended, the order, the
\* task or agent it awaits, and the response it sent.
NoDelete == [pc |-> "idle", order |-> 0, task |-> 0, value |-> NONE]

\* No cleanup_all_sessions call is running.  A call: the session ids of its
\* snapshot it has not reached yet and the one whose cleanup it is in.
NoSweep == [pc |-> "idle", todo |-> {}, id |-> 0]

\* No shutdown was requested.  The coordinator: where it is, and where each of
\* its three children is.
NoShutdown == [pc |-> "idle", stop |-> "none", browser |-> "none", db |-> "none"]

\* The state after construction, with room for n orders and m tasks and with
\* max_queue_size as _load_queue_settings leaves it.
Setup(n, m) ==
  /\ queue_task = NONE
  /\ max_queue_size = DEFAULT_MAX_QUEUE_SIZE
  /\ add_call = NoAdd
  /\ stop_call = NoStop
  /\ delete_call = NoDelete
  /\ sweep_call = NoSweep
  /\ shutdown = NoShutdown
  /\ orders = [o \in 1..n |-> AbsentRow]
  /\ next_id = 1
  /\ db_call = [c \in 1..StoreClients |-> [pc |-> "idle", row |-> 0, got |-> {}]]
  /\ status = STOPPED
  /\ paused = FALSE
  /\ max_concurrent \in 1..MaxSetting
  /\ pollers = [fresh |-> 0, asleep |-> 0]
  /\ shutdown_event = FALSE
  /\ processing_orders = [o \in 1..n |-> 0]
  /\ active_agents = [o \in 1..n |-> 0]
  /\ tasks = [t \in 1..m |-> NoTask]
  /\ next_task = 1
  /\ agents = [t \in 1..m |-> NoAgent]
  /\ strands_lock = <<>>
  /\ strands_active = {}
  /\ cancel_call = [o \in 1..n |-> NoCall]
  /\ resume_call = [o \in 1..n |-> "idle"]
  /\ retries = 0
  /\ bs = [created |-> FALSE, db_manager |-> FALSE, config |-> NONE]
  /\ active_clients = [o \in 1..n |-> 0]
  /\ active_sessions = [o \in 1..n |-> NONE]
  /\ cleanup_call = NoCleanup

\* The scheduler is the store's only client here, so the backend makes no
\* difference: SQLite, the default.
Init == Setup(NumOrders, MaxTasks) /\ use_postgres = FALSE

\* No handler is in the middle of a segment that runs without awaiting, no
\* coroutine sits in a blocking call on the loop's thread, and the process has
\* not exited: the event loop is free to run another coroutine or a timer.
LoopFree ==
  /\ {o \in OrderIds : resume_call[o] = "committed"} = {}
  /\ {t \in TaskIds : tasks[t].pc = "releasing"} = {}
  /\ shutdown.pc # "exited"

\* start(): unless the queue is RUNNING, a poll loop task is created.
Start ==
  /\ LoopFree
  /\ status # RUNNING
  /\ pollers.fresh + pollers.asleep < MaxPollers
  /\ status' = RUNNING
  /\ shutdown_event' = FALSE
  /\ pollers' = [pollers EXCEPT !.fresh = @ + 1]
  /\ queue_task' = "fresh"
  /\ UNCHANGED <<max_queue_size, add_call, stop_call, delete_call, sweep_call,
                 shutdown>>
  /\ UNCHANGED <<storeVars, paused, max_concurrent, processing_orders,
                 active_agents, tasks, next_task, agents, strands_lock,
                 strands_active, handlerVars, registryVars>>

\* pause()
Pause ==
  /\ LoopFree
  /\ status = RUNNING
  /\ status' = PAUSED
  /\ paused' = TRUE
  /\ UNCHANGED lifecycleVars
  /\ UNCHANGED <<storeVars, max_concurrent, pollers, shutdown_event,
                 processing_orders, active_agents, tasks, next_task, agents,
                 strands_lock, strands_active, handlerVars, registryVars>>

\* resume()
Resume ==
  /\ LoopFree
  /\ status = PAUSED
  /\ status' = RUNNING
  /\ paused' = FALSE
  /\ UNCHANGED lifecycleVars
  /\ UNCHANGED <<storeVars, max_concurrent, pollers, shutdown_event,
                 processing_orders, active_agents, tasks, next_task, agents,
                 strands_lock, strands_active, handlerVars, registryVars>>

\* update_settings(settings) followed by _load_queue_settings(): the stored
\* max_concurrent_orders becomes the new max_concurrent.
UpdateSettings(n) ==
  /\ LoopFree
  /\ n # max_concurrent
  /\ max_concurrent' = n
  /\ max_queue_size' = DEFAULT_MAX_QUEUE_SIZE
  /\ UNCHANGED <<queue_task, add_call, stop_call, delete_call, sweep_call,
                 shutdown>>
  /\ UNCHANGED <<storeVars, status, paused, pollers, shutdown_event,
                 processing_orders, active_agents, tasks, next_task, agents,
                 strands_lock, strands_active, handlerVars, registryVars>>

\* The PENDING orders add_order counts.
PendingCount(ords) == Cardinality({o \in DOMAIN ords : ords[o].status = PENDING})

\* The checks of add_order without the one of the queue size.
RejectionWithoutCeiling(retailer_configured, method, pending) ==
  IF ~retailer_configured THEN "not_configured"
  ELSE IF method \notin AutomationMethod THEN "invalid_method"
  ELSE NONE

\* The checks of add_order, in the order the code makes them; each raises
\* ValueError.  NONE: the order is admitted.
Rejection(retailer_configured, method, pending) ==
  IF ~retailer_configured THEN "not_configured"
  ELSE IF method \notin AutomationMethod THEN "invalid_method"
  ELSE IF pending >= max_queue_size THEN "queue_full"
  ELSE NONE

\* add_order(retailer, automation_method, ..., priority): a failed check
\* raises ValueError before anything is stored; otherwise create_order.
AddOrder(retailer_configured, method, priority) ==
  LET why == Rejection(retailer_configured, method, PendingCount(orders)) IN
  /\ LoopFree
  /\ IF why # NONE
       THEN /\ add_call' = [result |-> "ValueError",
                            retailer_configured |-> retailer_configured,
                            method |-> method]
            /\ UNCHANGED <<orders, next_id>>
       ELSE /\ next_id \in OrderIds
            /\ orders' = [orders EXCEPT ![next_id] = NewRow(priority, method)]
            /\ next_id' = next_id + 1
            /\ add_call' = [result |-> "created",
                            retailer_configured |-> retailer_configured,
                            method |-> method]
  /\ UNCHANGED <<queue_task, max_queue_size, stop_call, delete_call, sweep_call,
                 shutdown>>
  /\ UNCHANGED <<use_postgres, db_call, queueVars, handlerVars, registryVars>>

\* _cleanup_completed_tasks: awaiting a finished task that was cancelled
\* raises CancelledError, which no handler of the sweep catches.
SweepRaises(po, tk) ==
  \E o \in DOMAIN po : po[o] # 0 /\ tk[po[o]].pc = "cancelled"

\* _cleanup_completed_tasks: the entries of finished tasks are deleted.
Sweep(po, tk) ==
  [o \in DOMAIN po |-> IF po[o] # 0 /\ Done(tk, po[o]) THEN 0 ELSE po[o]]

\* The capacity test with <= for <: one order too many is let in.
CanDispatchAtCapacity(po) == status = RUNNING /\ NumEntries(po) <= max_concurrent

\* The capacity test without the test of the status.
CanDispatchWhilePaused(po) == NumEntries(po) < max_concurrent

\* The capacity test of _process_queue.
CanDispatch(po) == status = RUNNING /\ NumEntries(po) < max_concurrent

\* The iterations of the while loop of _process_queue from one sleep to the
\* next: while there is capacity and a PENDING order, the order is claimed,
\* its task is created and the sweep runs, without the loop ever yielding.
\* raised: a CancelledError came out of the sweep; over: the run needs more
\* task slots than there are.
RECURSIVE Burst(_)
Burst(st) ==
  IF ~CanDispatch(st.po) THEN st
  ELSE LET o == FirstPending(st.ords, {}) IN
       IF o = 0 THEN st
       ELSE IF st.nt \notin DOMAIN st.tk THEN [st EXCEPT !.over = TRUE]
       ELSE LET po == [st.po EXCEPT ![o] = st.nt]
                tk == [st.tk EXCEPT ![st.nt] = NewTask(o, st.ords[o].automation_method)]
                claimed == [st EXCEPT !.ords = MarkProcessing(st.ords, o),
                                      !.po = po, !.tk = tk, !.nt = st.nt + 1]
            IN IF SweepRaises(po, tk) THEN [claimed EXCEPT !.raised = TRUE]
               ELSE Burst([claimed EXCEPT !.po = Sweep(po, tk)])

\* The scheduler's state a poll loop works on.
PollState(po) ==
  [ords |-> orders, po |-> po, tk |-> tasks, nt |-> next_task,
   raised |-> FALSE, over |-> FALSE]

\* What a run of the poll loop leaves behind; a CancelledError ends the loop.
\* own: the loop is the task queue_task refers to.
PollEffect(st, live, own) ==
  /\ ~st.over
  /\ orders' = st.ords
  /\ processing_orders' = st.po
  /\ tasks' = st.tk
  /\ next_task' = st.nt
  /\ pollers' = IF st.raised THEN live
                ELSE [live EXCEPT !.asleep = @ + 1]
  /\ queue_task' = IF ~own THEN queue_task
                   ELSE IF st.raised THEN "done" ELSE "asleep"

\* The loop finds _shutdown_event set at the head of its while statement and
\* ends; like a loop ended by a CancelledError, it claims nothing more.
PollExit(po, live, own) == PollEffect([PollState(po) EXCEPT !.raised = TRUE], live, own)

\* One of the live poll loops in state p ("fresh" or "asleep") may run: the
\* one queue_task refers to, or one an earlier start() left behind.
Runnable(p, own) ==
  IF own THEN queue_task = p
  ELSE pollers[p] > (IF queue_task = p THEN 1 ELSE 0)

\* A poll loop created by start() runs for the first time, up to its first
\* sleep.
PollBegin(own) ==
  /\ LoopFree
  /\ Runnable("fresh", own)
  /\ LET live == [pollers EXCEPT !.fresh = @ - 1] IN
     IF shutdown_event THEN PollExit(processing_orders, live, own)
     ELSE PollEffect(Burst(PollState(processing_orders)), live, own)
  /\ UNCHANGED <<max_queue_size, add_call, stop_call, delete_call, sweep_call,
                 shutdown>>
  /\ UNCHANGED <<next_id, use_postgres, db_call, status, paused, max_concurrent,
                 shutdown_event, active_agents, agents, strands_lock,
                 strands_active, handlerVars, registryVars>>

\* A poll loop wakes from its sleep: the sweep that ends the iteration, then
\* the next iterations up to the next sleep, or none once _shutdown_event is
\* set.
PollWake(own) ==
  /\ LoopFree
  /\ Runnable("asleep", own)
  /\ LET live == [pollers EXCEPT !.asleep = @ - 1]
         st == PollState(processing_orders)
         swept == Sweep(processing_orders, tasks)
     IN IF SweepRaises(processing_orders, tasks)
          THEN PollEffect([st EXCEPT !.raised = TRUE], live, own)
        ELSE IF shutdown_event THEN PollExit(swept, live, own)
        ELSE PollEffect(Burst(PollState(swept)), live, own)
  /\ UNCHANGED <<max_queue_size, add_call, stop_call, delete_call, sweep_call,
                 shutdown>>
  /\ UNCHANGED <<next_id, use_postgres, db_call, status, paused, max_concurrent,
                 shutdown_event, active_agents, agents, strands_lock,
                 strands_active, handlerVars, registryVars>>

(***************************************************************************)
(* stop() of the scheduler.                                                *)
(***************************************************************************)
\* list(self.processing_orders.items()): the entries stop() will visit.
Snapshot(po) == {<<o, po[o]>> : o \in {x \in DOMAIN po : po[x] # 0}}

\* The entry the for loop visits next.  A dict keeps its keys in insertion
\* order, which is the order of the task ids as long as no order is
\* dispatched twice.
FirstEntry(todo) == CHOOSE e \in todo : \A f \in todo : e[2] <= f[2]

\* stop() has left its try block normally, or through its except clause.
StopReturned(logged) == [NoStop EXCEPT !.pc = "returned", !.logged = logged]

\* The for loop of stop() from one await to the next: a task that is not done
\* is cancelled and awaited; the entry of a task that is done is deleted, and
\* a missing entry raises KeyError, which ends the loop in the except clause
\* of stop().  The result: the map, the tasks and where the call is.
RECURSIVE StopLoop(_, _, _), StopDelete(_, _, _, _)
StopLoop(po, tk, todo) ==
  IF todo = {} THEN [po |-> po, tk |-> tk, call |-> StopReturned(FALSE)]
  ELSE LET e == FirstEntry(todo)
           o == e[1]
           t == e[2]
           rest == todo \ {e}
       IN IF Done(tk, t) THEN StopDelete(po, tk, o, rest)
          ELSE [po |-> po, tk |-> [tk EXCEPT ![t].cancel_req = TRUE],
                call |-> [NoStop EXCEPT !.pc = "task", !.todo = rest,
                                        !.order = o, !.task = t]]

\* del self.processing_orders[order_id], and the rest of the loop.
StopDelete(po, tk, o, rest) ==
  IF po[o] = 0 THEN [po |-> po, tk |-> tk, call |-> StopReturned(TRUE)]
  ELSE StopLoop([po EXCEPT ![o] = 0], tk, rest)

\* stop() up to its first await: nothing when the queue is STOPPED; otherwise
\* STOPPED is set, the event is set, and the poll loop queue_task refers to is
\* cancelled and awaited if it has not ended.  A cancelled poll loop ends at
\* its sleep (or before its first line) without doing anything more.
StopBegin ==
  /\ LoopFree
  /\ stop_call.pc = "idle"
  /\ IF status = STOPPED
       THEN /\ stop_call' = StopReturned(FALSE)
            /\ UNCHANGED <<status, shutdown_event, pollers, queue_task,
                           processing_orders, tasks>>
       ELSE /\ status' = STOPPED
            /\ shutdown_event' = TRUE
            /\ IF queue_task \in {"fresh", "asleep"}
                 THEN /\ pollers' = [pollers EXCEPT ![queue_task] = @ - 1]
                      /\ queue_task' = "done"
                      /\ stop_call' = [NoStop EXCEPT !.pc = "queue"]
                      /\ UNCHANGED <<processing_orders, tasks>>
                 ELSE LET r == StopLoop(processing_orders, tasks,
                                        Snapshot(processing_orders))
                      IN /\ processing_orders' = r.po
                         /\ tasks' = r.tk
                         /\ stop_call' = r.call
                         /\ UNCHANGED <<pollers, queue_task>>
  /\ UNCHANGED <<max_queue_size, add_call, delete_call, sweep_call>>
  /\ UNCHANGED <<storeVars, paused, max_concurrent, active_agents, next_task,
                 agents, strands_lock, strands_active, handlerVars,
                 registryVars>>

\* stop() called from a request handler or from the lifespan's shutdown.
StopCall == StopBegin /\ UNCHANGED shutdown

\* stop() resumes after the await of the cancelled poll loop: the snapshot is
\* taken and the for loop runs to its first await.
StopQueueDone ==
  /\ LoopFree
  /\ stop_call.pc = "queue"
  /\ LET r == StopLoop(processing_orders, tasks, Snapshot(processing_orders))
     IN /\ processing_orders' = r.po
        /\ tasks' = r.tk
        /\ stop_call' = r.call
  /\ UNCHANGED <<queue_task, max_queue_size, add_call, delete_call, sweep_call,
                 shutdown>>
  /\ UNCHANGED <<storeVars, status, paused, max_concurrent, pollers,
                 shutdown_event, active_agents, next_task, agents,
                 strands_lock, strands_active, handlerVars, registryVars>>

\* stop() resumes once the task it cancelled has finished: the entry is
\* deleted and the for loop goes on.
StopResume ==
  /\ LoopFree
  /\ stop_call.pc = "task"
  /\ Done(tasks, stop_call.task)
  /\ LET r == StopDelete(processing_orders, tasks, stop_call.order,
                         stop_call.todo)
     IN /\ processing_orders' = r.po
        /\ tasks' = r.tk
        /\ stop_call' = r.call
  /\ UNCHANGED <<queue_task, max_queue_size, add_call, delete_call, sweep_call,
                 shutdown>>
  /\ UNCHANGED <<storeVars, status, paused, max_concurrent, pollers,
                 shutdown_event, active_agents, next_task, agents,
                 strands_lock, strands_active, handlerVars, registryVars>>

\* The caller of stop() goes on; the next call may be made.
StopDone ==
  /\ LoopFree
  /\ stop_call.pc = "returned"
  /\ stop_call' = NoStop
  /\ UNCHANGED <<queue_task, max_queue_size, add_call, delete_call, sweep_call,
                 shutdown>>
  /\ UNCHANGED <<storeVars, queueVars, handlerVars, registryVars>>

(***************************************************************************)
(* The browser-session registry: browser_service.py.                       *)
(***************************************************************************)
\* The automation config order_queue passes for a Strands order.
STRANDS_CONFIG == "strands_config"
NOVA_CONFIG == "nova_act_config"

\* get_browser_service(config, db_manager) on the global instance b: create
\* it, or merge a differing config, or attach the store: one branch only.
GetBrowserService(b, config, db_manager) ==
  IF ~b.created
    THEN [created |-> TRUE, db_manager |-> db_manager, config |-> config]
  ELSE IF config # NONE /\ b.config # config
    THEN [b EXCEPT !.config = config]
  ELSE IF db_manager /\ ~b.db_manager
    THEN [b EXCEPT !.db_manager = TRUE]
  ELSE b

\* register_session(session_id, browser_client, order_id)
RegisterSession(clients, sid, client) == [clients EXCEPT ![sid] = client]

\* cleanup_session: the protection check at its head.
Protected(b, ords, sid, force) ==
  ~force /\ b.db_manager /\ ords[sid].status = REQUIRES_HUMAN

\* cleanup_session run to its end: what is left of active_clients.
CleanupClients(b, ords, clients, sid, force) ==
  IF Protected(b, ords, sid, force) THEN clients ELSE [clients EXCEPT ![sid] = 0]

\* cleanup_session run to its end: what is left of active_sessions.
CleanupSessions(b, ords, sessions, sid, force) ==
  IF Protected(b, ords, sid, force) THEN sessions ELSE [sessions EXCEPT ![sid] = NONE]

\* session_lock is free: no cleanup_session call is inside its "with" block.
LockFree == cleanup_call.pc \in {"idle", "returned"}

\* register_session, the store write: with a store attached the order is
\* rewritten with the status it already has.
RegisterWrite(b, ords, o) ==
  IF b.db_manager THEN UpdateOrderStatus(ords, o, ords[o].status, Omitted, Omitted)
  ELSE ords

(***************************************************************************)
(* The per-order task: order_queue.py, OrderQueue._process_order, and the   *)
(* agents it drives.  One action per stretch of code between two awaits.    *)
(***************************************************************************)
\* asyncio.Lock of StrandsAgent: the holder is the head, waiters follow in
\* arrival order; leaving (release, timeout or cancellation) drops the entry.
LockLeave(q, t) == SelectSeq(q, LAMBDA x : x # t)

Holds(q, t) == q # <<>> /\ Head(q) = t

\* update_order_status(order.id, FAILED, progress=100, ...)
FailOrder(ords, o) == UpdateOrderStatus(ords, o, FAILED, Arg(100), Omitted)

\* progress_callback: the status and progress the agent reports are written
\* whatever the order's status is.
ProgressCallback(ords, o, st, prog) == UpdateOrderStatus(ords, o, st, Arg(prog), Omitted)

\* How start_session ends when the session cannot be started: the except
\* clause of NovaActAgent.start_session returns a result with status
\* "failed"; the one of StrandsAgent.start_session raises the exception again.
StartFailure(method) == IF method = NOVA_ACT THEN "failed" ELSE "raised"

\* The except clause at the task boundary: FAILED is written, and the agent
\* found in active_agents (if any) is cleaned up with force=True.
ExceptionPath(t, ag) ==
  LET o == tasks[t].order
      a == active_agents[o]
  IN /\ orders' = FailOrder(orders, o)
     /\ IF a # 0
          THEN /\ tasks' = [tasks EXCEPT ![t].pc = "exc_cleanup", ![t].agent = a]
               /\ agents' = [ag EXCEPT ![a].cleanup_invoked = TRUE]
               /\ strands_lock' = IF tasks[a].method = STRANDS
                                    THEN Append(strands_lock, t) ELSE strands_lock
          ELSE /\ tasks' = [tasks EXCEPT ![t].pc = "done"]
               /\ agents' = ag
               /\ strands_lock' = strands_lock

\* _process_order from its first line to the first await: configuration,
\* agent creation, active_agents[order.id] = agent, start_session called.
TaskRun(t, outcome) ==
  LET o == tasks[t].order IN
  /\ LoopFree
  /\ tasks[t].pc = "created"
  /\ ~tasks[t].cancel_req
  /\ \/ /\ outcome = "config_error"
        /\ ExceptionPath(t, agents)
        /\ UNCHANGED <<active_agents, bs>>
     \/ /\ outcome # "config_error"
        /\ tasks[t].method = STRANDS
        /\ bs' = GetBrowserService(bs, STRANDS_CONFIG, TRUE)
        /\ active_agents' = [active_agents EXCEPT ![o] = t]
        /\ strands_lock' = Append(strands_lock, t)
        /\ tasks' = [tasks EXCEPT ![t].pc = "lock_wait"]
        /\ UNCHANGED <<orders, agents>>
     \/ /\ outcome = "ok"
        /\ tasks[t].method = NOVA_ACT
        /\ active_agents' = [active_agents EXCEPT ![o] = t]
        /\ agents' = [agents EXCEPT ![t].client = "running"]
        /\ tasks' = [tasks EXCEPT ![t].pc = "starting"]
        /\ UNCHANGED <<orders, strands_lock, bs>>
     \/ /\ outcome = "start_error"
        /\ tasks[t].method = NOVA_ACT
        /\ active_agents' = [active_agents EXCEPT ![o] = t]
        /\ orders' = FailOrder(orders, o)
        /\ tasks' = [tasks EXCEPT ![t].pc = "done",
                                  ![t].session = StartFailure(NOVA_ACT)]
        /\ UNCHANGED <<agents, strands_lock, bs>>
  /\ UNCHANGED lifecycleVars
  /\ UNCHANGED <<next_id, use_postgres, db_call, status, paused, max_concurrent,
                 pollers, shutdown_event, processing_orders, next_task,
                 strands_active, handlerVars, active_clients, active_sessions,
                 cleanup_call>>

\* StrandsAgent.start_session from the acquisition of the class lock to its
\* first await: the duplicate check, the remote client, the registration.
StrandsStart(t, start_ok) ==
  LET o == tasks[t].order IN
  /\ LoopFree
  /\ tasks[t].pc = "lock_wait"
  /\ ~tasks[t].cancel_req
  /\ Holds(strands_lock, t)
  /\ IF o \in strands_active \/ ~start_ok
       THEN /\ orders' = FailOrder(orders, o)
            /\ tasks' = [tasks EXCEPT
                            ![t].pc = "done",
                            ![t].session = IF o \in strands_active
                                             THEN "already_active"
                                           ELSE StartFailure(STRANDS)]
            /\ strands_lock' = LockLeave(strands_lock, t)
            /\ UNCHANGED <<agents, strands_active, bs, active_clients>>
       ELSE /\ strands_active' = strands_active \cup {o}
            /\ agents' = [agents EXCEPT ![t].client = "running"]
            /\ bs' = GetBrowserService(bs, NONE, FALSE)
            /\ active_clients' = RegisterSession(active_clients, o, t)
            /\ orders' = RegisterWrite(bs', orders, o)
            /\ tasks' = [tasks EXCEPT ![t].pc = "starting"]
            /\ UNCHANGED strands_lock
  /\ UNCHANGED lifecycleVars
  /\ UNCHANGED <<next_id, use_postgres, db_call, status, paused, max_concurrent,
                 pollers, shutdown_event, processing_orders, active_agents,
                 next_task, handlerVars, active_sessions, cleanup_call>>

\* The rest of start_session, the check of its result, and process_order up
\* to its first progress callback (PROCESSING, 10).
TaskSessionResult(t, ok) ==
  LET o == tasks[t].order
      nova == tasks[t].method = NOVA_ACT
      b == IF nova THEN GetBrowserService(bs, NONE, FALSE) ELSE bs
      registered == IF nova THEN RegisterWrite(b, orders, o) ELSE orders
  IN
  /\ LoopFree
  /\ tasks[t].pc = "starting"
  /\ ~tasks[t].cancel_req
  /\ bs' = b
  /\ active_clients' = IF nova THEN RegisterSession(active_clients, o, t)
                       ELSE active_clients
  /\ strands_lock' = LockLeave(strands_lock, t)
  /\ IF ok
       THEN /\ orders' = ProgressCallback(registered, o, PROCESSING, 10)
            /\ tasks' = [tasks EXCEPT ![t].pc = "processing", ![t].stage = 1,
                                      ![t].session = "active"]
            /\ agents' = ProcessOrderEnter(agents, t)
            /\ UNCHANGED strands_active
       ELSE /\ orders' = FailOrder(registered, o)
            /\ tasks' = [tasks EXCEPT ![t].pc = "done",
                                      ![t].session = StartFailure(tasks[t].method)]
            /\ strands_active' = IF nova THEN strands_active
                                 ELSE strands_active \ {o}
            /\ UNCHANGED agents
  /\ UNCHANGED lifecycleVars
  /\ UNCHANGED <<next_id, use_postgres, db_call, status, paused, max_concurrent,
                 pollers, shutdown_event, processing_orders, active_agents,
                 next_task, handlerVars, active_sessions, cleanup_call>>

\* The next progress callback of process_order: (PROCESSING, 30).
TaskProgress(t) ==
  LET o == tasks[t].order IN
  /\ LoopFree
  /\ tasks[t].pc = "processing"
  /\ ~tasks[t].cancel_req
  /\ tasks[t].stage = 1
  /\ orders' = ProgressCallback(orders, o, PROCESSING, 30)
  /\ tasks' = [tasks EXCEPT ![t].stage = 2]
  /\ UNCHANGED lifecycleVars
  /\ UNCHANGED <<next_id, use_postgres, db_call, status, paused, max_concurrent,
                 pollers, shutdown_event, processing_orders, active_agents,
                 next_task, agents, strands_lock, strands_active, handlerVars,
                 registryVars>>

\* _process_order_with_worker: the wait for the worker lasts at most
\* max_wait_time seconds and looks at the worker every poll_interval seconds.
max_wait_time == 300

poll_interval == 5

\* elapsed_time of the polling loop after the callbacks counted in stage:
\* the first two are made before the loop, each later one ends an iteration.
ElapsedTime(stage) == IF stage < 2 THEN 0 ELSE poll_interval * (stage - 2)

\* int(min(30 + (elapsed_time / max_wait_time) * 60, 90)); elapsed_time is a
\* multiple of poll_interval, for which the float arithmetic is exact.
PollProgress(elapsed_time) ==
  LET progress == 30 + (elapsed_time * 60) \div max_wait_time
  IN IF progress < 90 THEN progress ELSE 90

\* One iteration of the polling loop of _process_order_with_worker that
\* finds the worker still running: sleep, status check, progress callback
\* (PROCESSING, PollProgress(elapsed_time)).
TaskPoll(t) ==
  LET o == tasks[t].order
      elapsed_time == ElapsedTime(tasks[t].stage) + poll_interval
  IN
  /\ LoopFree
  /\ tasks[t].pc = "processing"
  /\ ~tasks[t].cancel_req
  /\ tasks[t].method = NOVA_ACT
  /\ tasks[t].stage >= 2
  /\ ElapsedTime(tasks[t].stage) < max_wait_time
  /\ orders' = ProgressCallback(orders, o, PROCESSING, PollProgress(elapsed_time))
  /\ tasks' = [tasks EXCEPT ![t].stage = @ + 1]
  /\ UNCHANGED lifecycleVars
  /\ UNCHANGED <<next_id, use_postgres, db_call, status, paused, max_concurrent,
                 pollers, shutdown_event, processing_orders, active_agents,
                 next_task, agents, strands_lock, strands_active, handlerVars,
                 registryVars>>

\* The results process_order can hand back, by agent: only NovaActAgent
\* reports requires_human.
AgentResults(method) ==
  IF method = NOVA_ACT THEN {"success", "failed", "requires_human", "raises"}
  ELSE {"success", "failed", "raises"}

\* The last progress callback of process_order: (COMPLETED, 100) on success;
\* StrandsAgent reports (FAILED, 100) as well.
FinalCallback(ords, o, method, res) ==
  IF res = "success" THEN ProgressCallback(ords, o, COMPLETED, 100)
  ELSE IF res = "failed" /\ method = STRANDS
    THEN ProgressCallback(ords, o, FAILED, 100)
  ELSE ords

\* The mapping of the agent's result to the order's status.
ResultWrite(ords, o, res) ==
  IF res = "success" THEN UpdateOrderStatus(ords, o, COMPLETED, Arg(100), Omitted)
  ELSE IF res = "requires_human"
    THEN UpdateOrderStatus(ords, o, REQUIRES_HUMAN, Arg(75), Arg(TRUE))
  ELSE FailOrder(ords, o)

\* Every result is followed by agent.cleanup(), requires_human included.
CleansUpAlways(res) == res \in {"success", "failed", "requires_human"}

\* Which results are followed by agent.cleanup().
CleansUp(res) == res \in {"success", "failed"}

\* process_order returns (or raises): the result is mapped to a status and,
\* unless it is requires_human, the agent's cleanup is called.
TaskResult(t, res) ==
  LET o == tasks[t].order
      ag == ProcessOrderLeave(agents, t)
  IN
  /\ LoopFree
  /\ tasks[t].pc = "processing"
  /\ ~tasks[t].cancel_req
  /\ res \in AgentResults(tasks[t].method)
  /\ IF res = "raises"
       THEN ExceptionPath(t, ag)
       ELSE /\ orders' = ResultWrite(FinalCallback(orders, o, tasks[t].method, res),
                                     o, res)
            /\ IF CleansUp(res)
                 THEN /\ tasks' = [tasks EXCEPT ![t].pc = "cleanup", ![t].agent = t,
                                                 ![t].result = res]
                      /\ agents' = [ag EXCEPT ![t].cleanup_invoked = TRUE]
                      /\ strands_lock' = IF tasks[t].method = STRANDS
                                           THEN Append(strands_lock, t)
                                           ELSE strands_lock
                 ELSE /\ tasks' = [tasks EXCEPT ![t].pc = "done", ![t].result = res]
                      /\ agents' = ag
                      /\ UNCHANGED strands_lock
  /\ UNCHANGED lifecycleVars
  /\ UNCHANGED <<next_id, use_postgres, db_call, status, paused, max_concurrent,
                 pollers, shutdown_event, processing_orders, active_agents,
                 next_task, strands_active, handlerVars, registryVars>>

\* The finally clause after agent.cleanup: the entry of the order is removed
\* from active_agents if there is one.
ForgetAgent(aa, o) == [aa EXCEPT ![o] = 0]

\* agent.cleanup() of agent a, awaited under wait_for by owner (a task, or 0
\* for a handler), ends: it ran to its end, or the timeout cancelled it.  A
\* StrandsAgent cleans up under the class lock: it forgets its session id,
\* stops its client and calls the registry's cleanup_session without force.
AgentCleanup(owner, a, how) ==
  LET sid == tasks[a].order
      strands == tasks[a].method = STRANDS
      started == agents[a].client # "none"
  IN
  /\ how = "completed" /\ strands => Holds(strands_lock, owner)
  /\ strands_active' = IF strands /\ started /\ Holds(strands_lock, owner)
                         THEN strands_active \ {sid} ELSE strands_active
  /\ IF how = "completed"
       THEN /\ agents' = [agents EXCEPT
                            ![a].client = IF started THEN "stopped" ELSE @,
                            ![a].is_processing = FALSE]
            /\ active_clients' = IF strands /\ started
                                   THEN CleanupClients(bs, orders, active_clients, sid, FALSE)
                                   ELSE active_clients
            /\ active_sessions' = IF strands /\ started
                                    THEN CleanupSessions(bs, orders, active_sessions, sid, FALSE)
                                    ELSE active_sessions
       ELSE UNCHANGED <<agents, active_clients, active_sessions>>
  /\ strands_lock' = LockLeave(strands_lock, owner)

\* asyncio.wait_for(agent.cleanup(...), timeout=10.0) ends in the task, and
\* the finally clause forgets the agent.
TaskCleanupDone(t, how) ==
  /\ LoopFree
  /\ tasks[t].pc \in {"cleanup", "exc_cleanup"}
  /\ ~tasks[t].cancel_req
  /\ AgentCleanup(t, tasks[t].agent, how)
  /\ active_agents' = ForgetAgent(active_agents, tasks[t].order)
  /\ tasks' = [tasks EXCEPT ![t].pc = "done"]
  /\ UNCHANGED lifecycleVars
  /\ UNCHANGED <<storeVars, status, paused, max_concurrent, pollers,
                 shutdown_event, processing_orders, next_task, handlerVars,
                 bs, cleanup_call>>

\* NovaActAgent.cleanup reaches self.agentcore_client.stop(), a blocking call
\* made on the event loop's thread, and the call does not return: no
\* coroutine and no timer runs from here on, the wait_for around cleanup
\* included.
TaskCleanupHangs(t) ==
  /\ LoopFree
  /\ tasks[t].pc \in {"cleanup", "exc_cleanup"}
  /\ ~tasks[t].cancel_req
  /\ tasks[tasks[t].agent].method = NOVA_ACT
  /\ agents[tasks[t].agent].client = "running"
  /\ tasks' = [tasks EXCEPT ![t].pc = "releasing"]
  /\ UNCHANGED lifecycleVars
  /\ UNCHANGED <<storeVars, status, paused, max_concurrent, pollers,
                 shutdown_event, processing_orders, active_agents, next_task,
                 agents, strands_lock, strands_active, handlerVars,
                 registryVars>>

\* task.cancel() takes effect: CancelledError is raised at the await the task
\* is suspended in.  It is not an Exception, so the except clauses of
\* _process_order and of the agents do not run; finally clauses and the exit
\* of "async with" do.
TaskCancelled(t) ==
  LET o == tasks[t].order
      a == tasks[t].agent
      pc == tasks[t].pc
  IN
  /\ LoopFree
  /\ tasks[t].cancel_req
  /\ pc \notin {"unused", "done", "cancelled"}
  /\ tasks' = [tasks EXCEPT ![t].pc = "cancelled"]
  /\ strands_lock' = LockLeave(strands_lock, t)
  /\ agents' = IF pc = "processing" THEN ProcessOrderLeave(agents, t) ELSE agents
  /\ active_agents' = IF pc \in {"cleanup", "exc_cleanup"}
                        THEN ForgetAgent(active_agents, o) ELSE active_agents
  /\ strands_active' = IF /\ pc \in {"cleanup", "exc_cleanup"}
                          /\ tasks[a].method = STRANDS
                          /\ agents[a].client # "none"
                          /\ Holds(strands_lock, t)
                         THEN strands_active \ {tasks[a].order} ELSE strands_active
  /\ UNCHANGED lifecycleVars
  /\ UNCHANGED <<storeVars, status, paused, max_concurrent, pollers,
                 shutdown_event, processing_orders, next_task, handlerVars,
                 registryVars>>

(***************************************************************************)
(* Operations on one order: cancel_order of the scheduler, and the retry    *)
(* and resume endpoints of app.py.                                          *)
(***************************************************************************)
\* cancel_order, the part after the task has been dealt with: the entry is
\* deleted (a missing entry raises KeyError: return False) and the store is
\* asked to cancel.
CancelOrderReturn(o, call) ==
  LET present == processing_orders[o] # 0
      first == call.pc = "idle"
  IN /\ processing_orders' = [processing_orders EXCEPT ![o] = 0]
     /\ orders' = IF present \/ first THEN DbCancel(orders, o) ELSE orders
     /\ cancel_call' = [cancel_call EXCEPT ![o] =
            [call EXCEPT !.pc = "returned",
                         !.value = (present \/ first) /\ DbCancelCount(orders, o) = 1]]

\* cancel_order(order_id) up to its await (or to its end when there is no
\* unfinished task to await).
CancelOrderCall(o) ==
  LET t == processing_orders[o]
      live == t # 0 /\ ~Done(tasks, t)
      call == [cancel_call[o] EXCEPT !.task = IF live THEN t ELSE 0,
                                     !.at_call = orders[o].status,
                                     !.in_flight = live]
  IN
  /\ LoopFree
  /\ cancel_call[o].pc = "idle"
  /\ IF live
       THEN /\ tasks' = [tasks EXCEPT ![t].cancel_req = TRUE]
            /\ cancel_call' = [cancel_call EXCEPT ![o] = [call EXCEPT !.pc = "awaiting"]]
            /\ UNCHANGED <<orders, processing_orders>>
       ELSE /\ CancelOrderReturn(o, call)
            /\ UNCHANGED tasks
  /\ UNCHANGED lifecycleVars
  /\ UNCHANGED <<next_id, use_postgres, db_call, status, paused, max_concurrent,
                 pollers, shutdown_event, active_agents, next_task, agents,
                 strands_lock, strands_active, resume_call, retries,
                 registryVars>>

\* cancel_order resumes once the task it cancelled has finished.
CancelOrderResume(o) ==
  /\ LoopFree
  /\ cancel_call[o].pc = "awaiting"
  /\ Done(tasks, cancel_call[o].task)
  /\ CancelOrderReturn(o, cancel_call[o])
  /\ UNCHANGED lifecycleVars
  /\ UNCHANGED <<next_id, use_postgres, db_call, status, paused, max_concurrent,
                 pollers, shutdown_event, active_agents, tasks, next_task,
                 agents, strands_lock, strands_active, resume_call, retries,
                 registryVars>>

\* The cancel endpoint of app.py answers: 404 unless the call returned True.
\* What the call found and returned stays on record until the next call.
CancelOrderDone(o) ==
  /\ LoopFree
  /\ cancel_call[o].pc = "returned"
  /\ cancel_call' = [cancel_call EXCEPT ![o].pc = "idle", ![o].task = 0]
  /\ UNCHANGED lifecycleVars
  /\ UNCHANGED <<storeVars, queueVars, resume_call, retries, registryVars>>

\* retry_order: the status of a FAILED or CANCELLED order is reset to PENDING;
\* the call that follows (order_queue.process_order) fails with an
\* AttributeError, after the write.
RetryOrder(o) ==
  /\ LoopFree
  /\ retries < MaxRetries
  /\ orders[o].status \in {FAILED, CANCELLED}
  /\ orders' = UpdateOrderStatus(orders, o, PENDING, Omitted, Omitted)
  /\ retries' = retries + 1
  /\ UNCHANGED lifecycleVars
  /\ UNCHANGED <<next_id, use_postgres, db_call, queueVars, cancel_call,
                 resume_call, registryVars>>

\* resume_nova_act_after_captcha up to the await of the agent: the checks,
\* then PROCESSING is written.
ResumeCall(o) ==
  /\ LoopFree
  /\ resume_call[o] = "idle"
  /\ orders[o].automation_method = NOVA_ACT
  /\ orders[o].status = REQUIRES_HUMAN
  /\ active_agents[o] # 0
  /\ orders' = UpdateOrderStatus(orders, o, PROCESSING, Omitted, Omitted)
  /\ resume_call' = [resume_call EXCEPT ![o] = "awaiting"]
  /\ UNCHANGED lifecycleVars
  /\ UNCHANGED <<next_id, use_postgres, db_call, queueVars, cancel_call,
                 retries, registryVars>>

\* The status resume_nova_act_after_captcha writes for the agent's result.
ResumeStatus(res) ==
  IF res = "success" THEN COMPLETED
  ELSE IF res = "requires_human" THEN REQUIRES_HUMAN
  ELSE FAILED

\* resume_after_captcha returns: the status for the result is written; for
\* success and failure the handler goes on to db_manager.update_order, which
\* does not exist.
ResumeResult(o, res) ==
  /\ LoopFree
  /\ resume_call[o] = "awaiting"
  /\ orders' = UpdateOrderStatus(orders, o, ResumeStatus(res), Omitted, Omitted)
  /\ resume_call' = [resume_call EXCEPT ![o] =
                       IF res = "requires_human" THEN "idle" ELSE "committed"]
  /\ UNCHANGED lifecycleVars
  /\ UNCHANGED <<next_id, use_postgres, db_call, queueVars, cancel_call,
                 retries, registryVars>>

\* The AttributeError of db_manager.update_order lands in the handler's
\* except clause, which writes REQUIRES_HUMAN; no await lies in between.
ResumeError(o) ==
  /\ resume_call[o] = "committed"
  /\ orders' = UpdateOrderStatus(orders, o, REQUIRES_HUMAN, Omitted, Omitted)
  /\ resume_call' = [resume_call EXCEPT ![o] = "idle"]
  /\ UNCHANGED lifecycleVars
  /\ UNCHANGED <<next_id, use_postgres, db_call, queueVars, cancel_call,
                 retries, registryVars>>

\* resolve_review: a REQUIRES_HUMAN order gets the status of the request, or
\* COMPLETED without one, and its review flag is cleared.  A status in the
\* request is upper-cased before the lookup by value, which no member of
\* OrderStatus matches: ValueError, nothing is written.
ResolveReview(o) ==
  /\ LoopFree
  /\ orders[o].status = REQUIRES_HUMAN
  /\ orders' = UpdateOrderStatus(orders, o, COMPLETED, Omitted, Arg(FALSE))
  /\ UNCHANGED lifecycleVars
  /\ UNCHANGED <<next_id, use_postgres, db_call, queueVars, handlerVars,
                 registryVars>>

(***************************************************************************)
(* The force delete endpoint of app.py: _force_delete_order_impl.           *)
(***************************************************************************)
\* delete_order of the store: the row is deleted.
DeleteRow(ords, o) == [ords EXCEPT ![o] = AbsentRow]

\* Steps 4 and 5 and the response: the row is deleted; delete_order handing
\* back False becomes a 500.
ForceDeleteFinish(o) ==
  /\ orders' = DeleteRow(orders, o)
  /\ delete_call' = [NoDelete EXCEPT !.pc = "returned", !.order = o,
                                     !.value = IF Exists(o) THEN "deleted" ELSE "500"]

\* Steps 2 and 3 up to the await of the agent: the registry is fetched with
\* the Strands config and the store, cleanup_session(o, force=True) runs,
\* and the agent found in active_agents is cleaned up under a timeout of 1 s;
\* without an agent the handler goes on to the end.
ForceDeleteRelease(o) ==
  LET b == GetBrowserService(bs, STRANDS_CONFIG, TRUE)
      a == active_agents[o]
  IN
  /\ bs' = b
  /\ active_clients' = CleanupClients(b, orders, active_clients, o, TRUE)
  /\ active_sessions' = CleanupSessions(b, orders, active_sessions, o, TRUE)
  /\ IF a # 0
       THEN /\ agents' = [agents EXCEPT ![a].cleanup_invoked = TRUE]
            /\ strands_lock' = IF tasks[a].method = STRANDS
                                 THEN Append(strands_lock, 0) ELSE strands_lock
            /\ delete_call' = [NoDelete EXCEPT !.pc = "agent", !.order = o,
                                               !.task = a]
            /\ UNCHANGED orders
       ELSE /\ ForceDeleteFinish(o)
            /\ UNCHANGED <<agents, strands_lock>>

\* DELETE /api/orders/{o}/force up to its first await: 404 without a row;
\* step 1 cancels the order's task and awaits it if it has not finished.
ForceDeleteCall(o) ==
  LET t == processing_orders[o] IN
  /\ LoopFree
  /\ LockFree
  /\ delete_call.pc = "idle"
  /\ IF ~Exists(o)
       THEN /\ delete_call' = [NoDelete EXCEPT !.pc = "returned", !.order = o,
                                               !.value = "404"]
            /\ UNCHANGED <<orders, processing_orders, tasks, agents, strands_lock,
                           registryVars>>
       ELSE IF t # 0 /\ ~Done(tasks, t)
         THEN /\ tasks' = [tasks EXCEPT ![t].cancel_req = TRUE]
              /\ delete_call' = [NoDelete EXCEPT !.pc = "task", !.order = o,
                                                 !.task = t]
              /\ UNCHANGED <<orders, processing_orders, agents, strands_lock,
                             registryVars>>
         ELSE /\ processing_orders' = [processing_orders EXCEPT ![o] = 0]
              /\ ForceDeleteRelease(o)
              /\ UNCHANGED <<tasks, cleanup_call>>
  /\ UNCHANGED <<queue_task, max_queue_size, add_call, stop_call, sweep_call,
                 shutdown>>
  /\ UNCHANGED <<next_id, use_postgres, db_call, status, paused, max_concurrent,
                 pollers, shutdown_event, active_agents, next_task,
                 strands_active, handlerVars>>

\* The task cancelled in step 1 has finished: the entry of the order is
\* removed from processing_orders, then steps 2 and 3.
ForceDeleteTaskDone ==
  LET o == delete_call.order IN
  /\ LoopFree
  /\ LockFree
  /\ delete_call.pc = "task"
  /\ Done(tasks, delete_call.task)
  /\ processing_orders' = [processing_orders EXCEPT ![o] = 0]
  /\ ForceDeleteRelease(o)
  /\ UNCHANGED <<queue_task, max_queue_size, add_call, stop_call, sweep_call,
                 shutdown>>
  /\ UNCHANGED <<next_id, use_postgres, db_call, status, paused, max_concurrent,
                 pollers, shutdown_event, active_agents, tasks, next_task,
                 strands_active, handlerVars, cleanup_call>>

\* The cleanup of the agent has ended or timed out: the entry of the order
\* is removed from active_agents (a missing entry is logged), then the row.
ForceDeleteAgentDone(how) ==
  LET o == delete_call.order IN
  /\ LoopFree
  /\ delete_call.pc = "agent"
  /\ AgentCleanup(0, delete_call.task, how)
  /\ active_agents' = ForgetAgent(active_agents, o)
  /\ ForceDeleteFinish(o)
  /\ UNCHANGED <<queue_task, max_queue_size, add_call, stop_call, sweep_call,
                 shutdown>>
  /\ UNCHANGED <<next_id, use_postgres, db_call, status, paused, max_concurrent,
                 pollers, shutdown_event, processing_orders, tasks, next_task,
                 handlerVars, bs, cleanup_call>>

\* The response has been sent; the next request may come.
ForceDeleteDone ==
  /\ LoopFree
  /\ delete_call.pc = "returned"
  /\ delete_call' = NoDelete
  /\ UNCHANGED <<queue_task, max_queue_size, add_call, stop_call, sweep_call,
                 shutdown>>
  /\ UNCHANGED <<storeVars, queueVars, handlerVars, registryVars>>

(***************************************************************************)
(* The scheduler with its tasks and the operations on orders.               *)
(***************************************************************************)
Next ==
  \/ Start
  \/ Pause
  \/ Resume
  \/ \E n \in 1..MaxSetting : UpdateSettings(n)
  \/ \E method \in AutomationMethod, priority \in 1..MaxPriority :
       AddOrder(TRUE, method, priority)
  \/ \E own \in BOOLEAN : PollBegin(own)
  \/ \E own \in BOOLEAN : PollWake(own)
  \/ \E t \in TaskIds, outcome \in {"ok", "config_error", "start_error"} :
       TaskRun(t, outcome)
  \/ \E t \in TaskIds, start_ok \in BOOLEAN : StrandsStart(t, start_ok)
  \/ \E t \in TaskIds, ok \in BOOLEAN : TaskSessionResult(t, ok)
  \/ \E t \in TaskIds : TaskProgress(t)
  \/ \E t \in TaskIds,
        res \in {"success", "failed", "requires_human", "raises"} :
       TaskResult(t, res)
  \/ \E t \in TaskIds, how \in {"completed", "timeout"} : TaskCleanupDone(t, how)
  \/ \E t \in TaskIds : TaskCancelled(t)
  \/ \E o \in OrderIds : CancelOrderCall(o)
  \/ \E o \in OrderIds : CancelOrderResume(o)
  \/ \E o \in OrderIds : CancelOrderDone(o)
  \/ \E o \in OrderIds : RetryOrder(o)
  \/ \E o \in OrderIds : ResumeCall(o)
  \/ \E o \in OrderIds, res \in {"success", "failed", "requires_human"} :
       ResumeResult(o, res)
  \/ \E o \in OrderIds : ResumeError(o)
  \/ \E o \in OrderIds : ResolveReview(o)

Spec == Init /\ [][Next]_vars

(***************************************************************************)
(* The scheduler seen from its maps: orders are added, claimed and          *)
(* cancelled, the queue is paused and resumed, the settings change, and     *)
(* each task ends at its first step (its configuration cannot be loaded) or *)
(* is cancelled.  How a task ends makes no difference to processing_orders. *)
(***************************************************************************)
InitQueue == Setup(QueueOrders, QueueTasks) /\ use_postgres = FALSE

NextQueue ==
  \/ Start
  \/ Pause
  \/ Resume
  \/ \E n \in 1..MaxSetting : UpdateSettings(n)
  \/ AddOrder(TRUE, NOVA_ACT, NORMAL)
  \/ \E own \in BOOLEAN : PollBegin(own)
  \/ \E own \in BOOLEAN : PollWake(own)
  \/ \E t \in TaskIds : TaskRun(t, "config_error")
  \/ \E t \in TaskIds : TaskCancelled(t)
  \/ \E o \in OrderIds : CancelOrderCall(o)
  \/ \E o \in OrderIds : CancelOrderResume(o)
  \/ \E o \in OrderIds : CancelOrderDone(o)

SpecQueue == InitQueue /\ [][NextQueue]_vars

\* The event loop runs every coroutine that is ready and every sleep ends:
\* a poll loop that is alive goes on, a task that was created runs, a
\* cancellation is delivered, and a cancel_order call that awaits a task
\* resumes once the task has ended.  Nothing is assumed about the requests
\* that arrive.
QueueFairness ==
  /\ WF_vars(\E own \in BOOLEAN : PollBegin(own))
  /\ WF_vars(\E own \in BOOLEAN : PollWake(own))
  /\ WF_vars(\E t \in TaskIds : TaskRun(t, "config_error"))
  /\ WF_vars(\E t \in TaskIds : TaskCancelled(t))
  /\ WF_vars(\E o \in OrderIds : CancelOrderResume(o))
  /\ WF_vars(\E o \in OrderIds : CancelOrderDone(o))

\* The scheduler while it runs: orders are added, claimed and cancelled;
\* nothing pauses the queue or changes its settings.
NextClaim ==
  \/ Start
  \/ AddOrder(TRUE, NOVA_ACT, NORMAL)
  \/ \E own \in BOOLEAN : PollBegin(own)
  \/ \E own \in BOOLEAN : PollWake(own)
  \/ \E t \in TaskIds : TaskRun(t, "config_error")
  \/ \E t \in TaskIds : TaskCancelled(t)
  \/ \E o \in OrderIds : CancelOrderCall(o)
  \/ \E o \in OrderIds : CancelOrderResume(o)
  \/ \E o \in OrderIds : CancelOrderDone(o)

SpecClaim == InitQueue /\ [][NextClaim]_vars

SpecClaimFair == SpecClaim /\ QueueFairness

(***************************************************************************)
(* The per-order task with its agent, from dispatch to its end, and the     *)
(* operations on an order that waits for a human.  Nothing cancels a task.  *)
(***************************************************************************)
InitAgent == Setup(AgentOrders, AgentTasks) /\ use_postgres = FALSE

NextAgent ==
  \/ Start
  \/ \E method \in AutomationMethod : AddOrder(TRUE, method, NORMAL)
  \/ \E own \in BOOLEAN : PollBegin(own)
  \/ \E own \in BOOLEAN : PollWake(own)
  \/ \E t \in TaskIds, outcome \in {"ok", "config_error", "start_error"} :
       TaskRun(t, outcome)
  \/ \E t \in TaskIds, start_ok \in BOOLEAN : StrandsStart(t, start_ok)
  \/ \E t \in TaskIds, ok \in BOOLEAN : TaskSessionResult(t, ok)
  \/ \E t \in TaskIds : TaskProgress(t)
  \/ \E t \in TaskIds,
        res \in {"success", "failed", "requires_human", "raises"} :
       TaskResult(t, res)
  \/ \E t \in TaskIds, how \in {"completed", "timeout"} : TaskCleanupDone(t, how)
  \/ \E o \in OrderIds : ResumeCall(o)
  \/ \E o \in OrderIds, res \in {"success", "failed", "requires_human"} :
       ResumeResult(o, res)
  \/ \E o \in OrderIds : ResumeError(o)
  \/ \E o \in OrderIds : ResolveReview(o)

SpecAgent == InitAgent /\ [][NextAgent]_vars

\* The event loop runs every coroutine that is ready, and every timer the
\* code sets expires: the poll loop's sleeps and the wait_for around the
\* agent's cleanup.  A handler that runs without awaiting holds the loop only
\* for a moment, so a step that is possible again and again is taken.  Whether an await inside the agent's start_session or
\* process_order ever completes is up to the agent and the remote browser:
\* no fairness is assumed for TaskSessionResult, TaskProgress and TaskResult.
AgentFairness ==
  /\ SF_vars(Start)
  /\ SF_vars(\E own \in BOOLEAN : PollBegin(own))
  /\ SF_vars(\E own \in BOOLEAN : PollWake(own))
  /\ SF_vars(\E t \in TaskIds, outcome \in {"ok", "config_error", "start_error"} :
               TaskRun(t, outcome))
  /\ SF_vars(\E t \in TaskIds, start_ok \in BOOLEAN : StrandsStart(t, start_ok))
  /\ SF_vars(\E t \in TaskIds, how \in {"completed", "timeout"} :
               TaskCleanupDone(t, how))
  /\ SF_vars(\E o \in OrderIds : ResumeError(o))

SpecAgentFair == SpecAgent /\ AgentFairness

\* The per-order task with the polling loop of the Nova Act worker, one
\* iteration at a time.
NextProgress ==
  \/ NextAgent
  \/ \E t \in TaskIds : TaskPoll(t)

SpecProgress == InitAgent /\ [][NextProgress]_vars

\* The per-order task with every way its agent's cleanup can go: it ends,
\* it raises, the timeout cancels it, or it blocks the loop's thread.
NextCleanup ==
  \/ NextAgent
  \/ \E t \in TaskIds : TaskCleanupDone(t, "raised")
  \/ \E t \in TaskIds : TaskCleanupHangs(t)

SpecCleanup == InitAgent /\ [][NextCleanup]_vars

SpecCleanupFair == SpecCleanup /\ AgentFairness

(***************************************************************************)
(* Cancellation and retry: the task of a Nova Act order from dispatch to    *)
(* its end, cancel_order at any moment of it, and retry_order.              *)
(***************************************************************************)
InitCancel == Setup(CancelOrders, CancelTasks) /\ use_postgres = FALSE

NextCancel ==
  \/ Start
  \/ AddOrder(TRUE, NOVA_ACT, NORMAL)
  \/ \E own \in BOOLEAN : PollBegin(own)
  \/ \E own \in BOOLEAN : PollWake(own)
  \/ \E t \in TaskIds, outcome \in {"ok", "config_error", "start_error"} :
       TaskRun(t, outcome)
  \/ \E t \in TaskIds, ok \in BOOLEAN : TaskSessionResult(t, ok)
  \/ \E t \in TaskIds,
        res \in {"success", "failed", "requires_human", "raises"} :
       TaskResult(t, res)
  \/ \E t \in TaskIds, how \in {"completed", "timeout"} : TaskCleanupDone(t, how)
  \/ \E t \in TaskIds : TaskCancelled(t)
  \/ \E o \in OrderIds : CancelOrderCall(o)
  \/ \E o \in OrderIds : CancelOrderResume(o)
  \/ \E o \in OrderIds : CancelOrderDone(o)
  \/ \E o \in OrderIds : RetryOrder(o)

SpecCancel == InitCancel /\ [][NextCancel]_vars

(***************************************************************************)
(* Dispatch order: orders of every priority are added while the queue runs  *)
(* and each is dispatched once; its task ends at its first step.            *)
(***************************************************************************)
InitDispatch == Setup(DispatchOrders, DispatchOrders) /\ use_postgres = FALSE

NextDispatch ==
  \/ Start
  \/ \E priority \in OrderPriority : AddOrder(TRUE, NOVA_ACT, priority)
  \/ \E own \in BOOLEAN : PollBegin(own)
  \/ \E own \in BOOLEAN : PollWake(own)
  \/ \E t \in TaskIds : TaskRun(t, "config_error")

SpecDispatch == InitDispatch /\ [][NextDispatch]_vars

\* A Python value with its type: a str never equals an int.
PyStr(s) == <<"str", s>>

PyInt(n) == <<"int", n>>

\* The priorities a create-order request can name (CreateOrderRequest:
\* priority is a str, "normal" by default).
RequestPriorities == {"low", "normal", "high", "urgent"}

\* str.upper()
Upper(s) ==
  CASE s = "low" -> "LOW"
    [] s = "normal" -> "NORMAL"
    [] s = "high" -> "HIGH"
    [] s = "urgent" -> "URGENT"
    [] OTHER -> s

\* OrderPriority(value): the members whose value equals the argument; the
\* call raises ValueError when there is none.
OrderPriorityByValue(value) == {p \in OrderPriority : PyInt(p) = value}

\* create_order, "Convert priority": OrderPriority(request.priority.upper()),
\* and OrderPriority.NORMAL when that raises ValueError.
ConvertPriority(request_priority) ==
  LET found == OrderPriorityByValue(PyStr(Upper(request_priority)))
  IN IF found = {} THEN NORMAL ELSE CHOOSE p \in found : TRUE

\* POST /api/orders for a configured retailer and a valid automation
\* method (the handler answers 400 otherwise, before anything is stored):
\* the priority is converted and add_order is called with it.
CreateOrder(request_priority, method) ==
  /\ method \in AutomationMethod
  /\ AddOrder(TRUE, method, ConvertPriority(request_priority))

\* Orders created through the endpoint with every priority a request can
\* name, and dispatched; each task ends at its first step.
NextCreate ==
  \/ Start
  \/ \E r \in RequestPriorities, method \in AutomationMethod :
        CreateOrder(r, method)
  \/ \E own \in BOOLEAN : PollBegin(own)
  \/ \E own \in BOOLEAN : PollWake(own)
  \/ \E t \in TaskIds : TaskRun(t, "config_error")

SpecCreate == InitDispatch /\ [][NextCreate]_vars

(***************************************************************************)
(* The life cycle of the scheduler: start, pause, resume and stop at any    *)
(* moment, with orders in flight and cancel_order calls under way.  Each    *)
(* order is dispatched at most once.                                        *)
(***************************************************************************)
InitLifecycle == Setup(LifeOrders, LifeTasks) /\ use_postgres = FALSE

NextLifecycle ==
  \/ Start
  \/ Pause
  \/ Resume
  \/ StopCall
  \/ StopQueueDone
  \/ StopResume
  \/ StopDone
  \/ AddOrder(TRUE, NOVA_ACT, NORMAL)
  \/ \E own \in BOOLEAN : PollBegin(own)
  \/ \E own \in BOOLEAN : PollWake(own)
  \/ \E t \in TaskIds, outcome \in {"ok", "config_error"} : TaskRun(t, outcome)
  \/ \E t \in TaskIds : TaskCancelled(t)
  \/ \E o \in OrderIds : CancelOrderCall(o)
  \/ \E o \in OrderIds : CancelOrderResume(o)
  \/ \E o \in OrderIds : CancelOrderDone(o)

SpecLifecycle == InitLifecycle /\ [][NextLifecycle]_vars

(***************************************************************************)
(* Admission: add_order calls with every kind of input, up to the queue     *)
(* ceiling and beyond.  Nothing is dispatched, so every stored order stays  *)
(* PENDING.                                                                 *)
(***************************************************************************)
\* A method string that is no value of AutomationMethod.
UNKNOWN_METHOD == "unknown"

\* Room for one order more than the ceiling admits.
AdmitOrders == DEFAULT_MAX_QUEUE_SIZE + 1

InitAdd == Setup(AdmitOrders, 0) /\ use_postgres = FALSE

NextAdd ==
  \E retailer_configured \in BOOLEAN, method \in {NOVA_ACT, UNKNOWN_METHOD} :
    AddOrder(retailer_configured, method, NORMAL)

SpecAdd == InitAdd /\ [][NextAdd]_vars

(***************************************************************************)
(* Force delete of a Nova Act order at any moment of its life, with retry   *)
(* and the poll loop running.                                               *)
(***************************************************************************)
InitDelete == Setup(DeleteOrders, DeleteTasks) /\ use_postgres = FALSE

NextDelete ==
  \/ Start
  \/ AddOrder(TRUE, NOVA_ACT, NORMAL)
  \/ \E own \in BOOLEAN : PollBegin(own)
  \/ \E own \in BOOLEAN : PollWake(own)
  \/ \E t \in TaskIds, outcome \in {"ok", "config_error", "start_error"} :
       TaskRun(t, outcome)
  \/ \E t \in TaskIds, ok \in BOOLEAN : TaskSessionResult(t, ok)
  \/ \E t \in TaskIds,
        res \in {"success", "failed", "requires_human", "raises"} :
       TaskResult(t, res)
  \/ \E t \in TaskIds, how \in {"completed", "timeout"} : TaskCleanupDone(t, how)
  \/ \E t \in TaskIds : TaskCancelled(t)
  \/ \E o \in OrderIds : RetryOrder(o)
  \/ \E o \in OrderIds : ForceDeleteCall(o)
  \/ ForceDeleteTaskDone
  \/ \E how \in {"completed", "timeout"} : ForceDeleteAgentDone(how)
  \/ ForceDeleteDone

SpecDelete == InitDelete /\ [][NextDelete]_vars

(***************************************************************************)
(* The store under concurrent clients: get_next_order is a query, then an   *)
(* update and a commit, and another client's call can fall in between.      *)
(***************************************************************************)
\* The rows other transactions hold a row lock on: PostgreSQL locks the row
\* the query selected until the commit; SQLite ignores FOR UPDATE.
LockedRows(c) ==
  IF use_postgres
    THEN {db_call[d].row : d \in {d \in DOMAIN db_call : d # c /\ db_call[d].pc = "selected"}}
  ELSE {}

\* get_next_order, the query of client c.
GetNextSelect(c) ==
  LET row == FirstPending(orders, LockedRows(c)) IN
  /\ db_call[c].pc = "idle"
  /\ row # 0
  /\ db_call' = [db_call EXCEPT ![c].pc = "selected", ![c].row = row]
  /\ UNCHANGED lifecycleVars
  /\ UNCHANGED <<orders, next_id, use_postgres, queueVars, handlerVars, registryVars>>

\* get_next_order, the update and the commit of client c; the order is
\* returned to the caller.
GetNextCommit(c) ==
  /\ db_call[c].pc = "selected"
  /\ orders' = MarkProcessing(orders, db_call[c].row)
  /\ db_call' = [db_call EXCEPT ![c].pc = "idle", ![c].row = 0,
                                ![c].got = @ \cup {db_call[c].row}]
  /\ UNCHANGED lifecycleVars
  /\ UNCHANGED <<next_id, use_postgres, queueVars, handlerVars, registryVars>>

InitStore == Setup(StoreRows, 0) /\ use_postgres \in BOOLEAN

NextStore ==
  \/ \E method \in AutomationMethod, priority \in 1..MaxPriority :
       AddOrder(TRUE, method, priority)
  \/ \E c \in DOMAIN db_call : GetNextSelect(c)
  \/ \E c \in DOMAIN db_call : GetNextCommit(c)

SpecStore == InitStore /\ [][NextStore]_vars

(***************************************************************************)
(* The registry on its own: the callers of get_browser_service, of          *)
(* register_session, create_browser_session and cleanup_session, and the    *)
(* status writes of the store.  cleanup_session holds session_lock from     *)
(* its first look at active_sessions to its return.                         *)
(***************************************************************************)
\* get_browser_service(config, db_manager) is called.
RegistryGet(config, db_manager) ==
  /\ bs' = GetBrowserService(bs, config, db_manager)
  /\ UNCHANGED lifecycleVars
  /\ UNCHANGED <<storeVars, queueVars, handlerVars, active_clients,
                 active_sessions, cleanup_call>>

\* update_order_status(o, st) by some other component.
StoreUpdate(o, st) ==
  /\ Exists(o)
  /\ orders' = UpdateOrderStatus(orders, o, st, Omitted, Omitted)
  /\ UNCHANGED lifecycleVars
  /\ UNCHANGED <<next_id, use_postgres, db_call, queueVars, handlerVars,
                 registryVars>>

\* register_session(sid, client, order_id=sid)
RegisterSessionCall(sid) ==
  /\ bs.created
  /\ LockFree
  /\ active_clients' = RegisterSession(active_clients, sid, 1)
  /\ orders' = RegisterWrite(bs, orders, sid)
  /\ UNCHANGED lifecycleVars
  /\ UNCHANGED <<next_id, use_postgres, db_call, queueVars, handlerVars, bs,
                 active_sessions, cleanup_call>>

\* create_browser_session(sid): an AgentCore session with its remote
\* browser client, or the fallback session without one.
CreateBrowserSession(sid, kind) ==
  /\ bs.created
  /\ LockFree
  /\ active_sessions[sid] = NONE
  /\ active_sessions' = [active_sessions EXCEPT ![sid] = kind]
  /\ UNCHANGED lifecycleVars
  /\ UNCHANGED <<storeVars, queueVars, handlerVars, bs, active_clients,
                 cleanup_call>>

\* What active_sessions holds for an id: NONE, or the session record, of
\* which the model keeps its browser_client and its manual_control flag:
\* "agentcore" (a client, manual_control False), "manual" (a client,
\* manual_control True) or "fallback" (browser_client None).
HasBrowserClient(session) == session \in {"agentcore", "manual"}

\* cleanup_session(sid, force) up to its first release: the protection
\* check; without a session in active_sessions there is nothing to release
\* and the client entry is deleted at once.  hangs: the stop() of the
\* session's remote browser client will not return.
CleanupSessionBegin(sid, force, hangs) ==
  /\ bs.created
  /\ cleanup_call.pc = "idle"
  /\ IF Protected(bs, orders, sid, force)
       THEN /\ cleanup_call' = [pc |-> "returned", id |-> sid, force |-> force,
                                hangs |-> FALSE]
            /\ UNCHANGED active_clients
       ELSE IF active_sessions[sid] # NONE
         THEN /\ cleanup_call' = [pc |-> "playwright", id |-> sid, force |-> force,
                                  hangs |-> hangs /\ HasBrowserClient(active_sessions[sid])]
              /\ UNCHANGED active_clients
         ELSE /\ cleanup_call' = [pc |-> "returned", id |-> sid, force |-> force,
                                  hangs |-> FALSE]
              /\ active_clients' = [active_clients EXCEPT ![sid] = 0]
  /\ UNCHANGED <<storeVars, queueVars, handlerVars, bs, active_sessions>>

\* cleanup_session(sid, force) is called by an agent or a handler.
CleanupSessionCall(sid, force, hangs) ==
  /\ CleanupSessionBegin(sid, force, hangs)
  /\ UNCHANGED lifecycleVars

\* cleanup_session: the Playwright browser and driver are closed, each under
\* a timeout of 3 s, or there is none to close; errors are logged.
CleanupPlaywright ==
  /\ cleanup_call.pc = "playwright"
  /\ cleanup_call' = [cleanup_call EXCEPT !.pc = "client"]
  /\ UNCHANGED lifecycleVars
  /\ UNCHANGED <<storeVars, queueVars, handlerVars, bs, active_clients,
                 active_sessions>>

\* cleanup_session: session.browser_client.stop() returns or raises; the
\* session is marked terminated and deleted, then the client entry.
CleanupClientStop ==
  /\ cleanup_call.pc = "client"
  /\ ~cleanup_call.hangs
  /\ active_sessions' = [active_sessions EXCEPT ![cleanup_call.id] = NONE]
  /\ active_clients' = [active_clients EXCEPT ![cleanup_call.id] = 0]
  /\ cleanup_call' = [cleanup_call EXCEPT !.pc = "returned"]
  /\ UNCHANGED lifecycleVars
  /\ UNCHANGED <<storeVars, queueVars, handlerVars, bs>>

\* The caller of cleanup_session goes on.
CleanupSessionExit ==
  /\ cleanup_call.pc = "returned"
  /\ sweep_call.id = 0
  /\ cleanup_call' = NoCleanup
  /\ UNCHANGED lifecycleVars
  /\ UNCHANGED <<storeVars, queueVars, handlerVars, bs, active_clients,
                 active_sessions>>

\* cleanup_all_sessions() up to its first cleanup_session call: under
\* session_lock the keys of active_sessions are copied.
SweepCall ==
  /\ bs.created
  /\ LockFree
  /\ sweep_call.pc = "idle"
  /\ LET session_ids == {sid \in DOMAIN active_sessions : active_sessions[sid] # NONE}
     IN sweep_call' = [NoSweep EXCEPT
                         !.pc = IF session_ids = {} THEN "returned" ELSE "running",
                         !.todo = session_ids]
  /\ UNCHANGED <<queue_task, max_queue_size, add_call, stop_call, delete_call,
                 shutdown>>
  /\ UNCHANGED <<storeVars, queueVars, handlerVars, registryVars>>

\* cleanup_all_sessions(): self.cleanup_session(session_id) for the next id
\* of the copy, with force left at its default False.
SweepNext(sid, hangs) ==
  /\ sweep_call.pc = "running"
  /\ sweep_call.id = 0
  /\ sid \in sweep_call.todo
  /\ CleanupSessionBegin(sid, FALSE, hangs)
  /\ sweep_call' = [sweep_call EXCEPT !.todo = @ \ {sid}, !.id = sid]
  /\ UNCHANGED <<queue_task, max_queue_size, add_call, stop_call, delete_call,
                 shutdown>>

\* cleanup_all_sessions(): the cleanup_session call has returned (or raised,
\* which is logged); the for loop goes on, or the sweep returns.
SweepResume ==
  /\ sweep_call.pc = "running"
  /\ sweep_call.id # 0
  /\ cleanup_call.pc = "returned"
  /\ cleanup_call' = NoCleanup
  /\ sweep_call' = [sweep_call EXCEPT
                      !.pc = IF sweep_call.todo = {} THEN "returned" ELSE "running",
                      !.id = 0]
  /\ UNCHANGED <<queue_task, max_queue_size, add_call, stop_call, delete_call,
                 shutdown>>
  /\ UNCHANGED <<storeVars, queueVars, handlerVars, bs, active_clients,
                 active_sessions>>

\* The caller of cleanup_all_sessions goes on.
SweepExit ==
  /\ sweep_call.pc = "returned"
  /\ sweep_call' = NoSweep
  /\ UNCHANGED <<queue_task, max_queue_size, add_call, stop_call, delete_call,
                 shutdown>>
  /\ UNCHANGED <<storeVars, queueVars, handlerVars, registryVars>>

InitRegistry == Setup(RegistrySessions, 0) /\ use_postgres = FALSE

NextRegistry ==
  \/ AddOrder(TRUE, NOVA_ACT, NORMAL)
  \/ \E o \in OrderIds, st \in {PROCESSING, REQUIRES_HUMAN, COMPLETED} :
       StoreUpdate(o, st)
  \/ RegistryGet(NONE, FALSE)
  \/ \E config \in {NOVA_CONFIG, STRANDS_CONFIG} : RegistryGet(config, TRUE)
  \/ \E sid \in OrderIds : RegisterSessionCall(sid)
  \/ \E sid \in OrderIds, kind \in {"agentcore", "fallback"} :
       CreateBrowserSession(sid, kind)
  \/ \E sid \in OrderIds, force \in BOOLEAN, hangs \in BOOLEAN :
       CleanupSessionCall(sid, force, hangs)
  \/ CleanupPlaywright
  \/ CleanupClientStop
  \/ CleanupSessionExit

SpecRegistry == InitRegistry /\ [][NextRegistry]_vars

\* enable_manual_control(sid): without a session, or with a session whose
\* browser_client has no take_control, an error result; otherwise
\* take_control() is called and the session's manual_control is set.
EnableManualControl(sessions, sid) ==
  IF HasBrowserClient(sessions[sid]) THEN [sessions EXCEPT ![sid] = "manual"]
  ELSE sessions

\* disable_manual_control(sid): the same checks, release_control() and
\* manual_control = False.
DisableManualControl(sessions, sid) ==
  IF HasBrowserClient(sessions[sid]) THEN [sessions EXCEPT ![sid] = "agentcore"]
  ELSE sessions

\* db_manager.update_order_status(order_id, "processing") of
\* release_manual_control: the status is passed as a str, and
\* 'order_model.status = status.value' raises AttributeError before any
\* column is assigned; the session is rolled back and the handler answers 500.
ReleaseWrite(ords, o) == ords

\* POST /api/orders/{o}/take-control: get_browser_service() without
\* arguments, then enable_manual_control(o); its result is the response (500
\* on an error).  The handler has no await and writes no order status.
TakeManualControl(o) ==
  /\ LockFree
  /\ bs' = GetBrowserService(bs, NONE, FALSE)
  /\ active_sessions' = EnableManualControl(active_sessions, o)
  /\ UNCHANGED lifecycleVars
  /\ UNCHANGED <<storeVars, queueVars, handlerVars, active_clients, cleanup_call>>

\* POST /api/orders/{o}/release-control: disable_manual_control(o), 400 on
\* its error; then, for an order that exists, the status write and the
\* restart of the automation, which the failing write never lets happen.
ReleaseManualControl(o) ==
  /\ LockFree
  /\ bs' = GetBrowserService(bs, NONE, FALSE)
  /\ active_sessions' = DisableManualControl(active_sessions, o)
  /\ orders' = IF HasBrowserClient(active_sessions[o]) /\ Exists(o)
                 THEN ReleaseWrite(orders, o) ELSE orders
  /\ UNCHANGED lifecycleVars
  /\ UNCHANGED <<next_id, use_postgres, db_call, queueVars, handlerVars,
                 active_clients, cleanup_call>>

\* The registry with the manual-control endpoints among its callers.
NextControl ==
  \/ NextRegistry
  \/ \E o \in OrderIds : TakeManualControl(o)
  \/ \E o \in OrderIds : ReleaseManualControl(o)

SpecControl == InitRegistry /\ [][NextControl]_vars

\* The registry with cleanup_all_sessions among its callers.
NextSweep ==
  \/ NextRegistry
  \/ SweepCall
  \/ \E sid \in OrderIds, hangs \in BOOLEAN : SweepNext(sid, hangs)
  \/ SweepResume
  \/ SweepExit

SpecSweep == InitRegistry /\ [][NextSweep]_vars

\* cleanup_expired_sessions() up to its first cleanup_session call: under
\* session_lock the sessions idle for more than 30 minutes are collected,
\* those of an order in REQUIRES_HUMAN left out; cleanup_session(session_id)
\* then runs for each with force at its default False.  idle: the sessions
\* whose last_accessed is older than 1800 s.
SweepExpiredCall(idle) ==
  /\ bs.created
  /\ LockFree
  /\ sweep_call.pc = "idle"
  /\ LET expired_sessions ==
           {sid \in idle : /\ active_sessions[sid] # NONE
                           /\ ~Protected(bs, orders, sid, FALSE)}
     IN sweep_call' = [NoSweep EXCEPT
                         !.pc = IF expired_sessions = {} THEN "returned" ELSE "running",
                         !.todo = expired_sessions]
  /\ UNCHANGED <<queue_task, max_queue_size, add_call, stop_call, delete_call,
                 shutdown>>
  /\ UNCHANGED <<storeVars, queueVars, handlerVars, registryVars>>

\* The registry with both sweeps among its callers.
NextExpiry ==
  \/ NextSweep
  \/ \E idle \in SUBSET OrderIds : SweepExpiredCall(idle)

SpecExpiry == InitRegistry /\ [][NextExpiry]_vars

(***************************************************************************)
(* The shutdown coordinator of app.py: signal_handler creates the task     *)
(* perform_graceful_shutdown, which sleeps, runs three children under       *)
(* asyncio.gather and a timeout, and calls os._exit.  Every step of the     *)
(* coordinator and of its children, and every timer, is run by the event    *)
(* loop; cleanup_all_sessions runs on a thread of the default executor.     *)
(* asyncio.wait_for is the one of Python 3.11: on expiry it cancels what it *)
(* waits for and returns once that has ended.                               *)
(***************************************************************************)
\* Every variable but shutdown, bs and those of stop() is left alone.
ShutdownOnly ==
  /\ UNCHANGED <<queue_task, max_queue_size, add_call, stop_call, delete_call,
                 sweep_call>>
  /\ UNCHANGED <<storeVars, queueVars, handlerVars, registryVars>>

\* signal_handler: SIGINT or SIGTERM arrives and the coordinator's task is
\* created.  The handler runs on the main thread whatever the loop is doing.
ShutdownTrigger ==
  /\ shutdown.pc = "idle"
  /\ shutdown' = [shutdown EXCEPT !.pc = "created"]
  /\ ShutdownOnly

\* perform_graceful_shutdown up to await asyncio.sleep(0.05).
ShutdownBegin ==
  /\ LoopFree
  /\ shutdown.pc = "created"
  /\ shutdown' = [shutdown EXCEPT !.pc = "sleeping"]
  /\ ShutdownOnly

\* The sleep is over: gather wraps the three children in tasks and the
\* coordinator awaits them under wait_for(..., timeout=1.5).
ShutdownGather ==
  /\ LoopFree
  /\ shutdown.pc = "sleeping"
  /\ shutdown' = [pc |-> "gathering", stop |-> "created",
                  browser |-> "created", db |-> "created"]
  /\ ShutdownOnly

\* stop_order_queue: wait_for(order_queue.stop(), timeout=0.5) starts stop()
\* in a task of its own, which runs to its first await.
ShutdownStopCall ==
  /\ shutdown.pc = "gathering"
  /\ shutdown.stop = "created"
  /\ StopBegin
  /\ shutdown' = [shutdown EXCEPT !.stop = "waiting"]

\* stop_order_queue: the 0.5 s are over and stop() is still suspended.
\* wait_for cancels stop()'s task, which passes the cancellation on to the
\* task stop() awaits (cancelled already), and waits for stop() to end.
ShutdownStopTimeout ==
  /\ LoopFree
  /\ shutdown.pc = "gathering"
  /\ shutdown.stop = "waiting"
  /\ stop_call.pc \in {"queue", "task"}
  /\ shutdown' = [shutdown EXCEPT !.stop = "expired"]
  /\ ShutdownOnly

\* stop_order_queue: stop() has ended, by returning or by raising; the child
\* logs and ends.
ShutdownStopDone ==
  /\ LoopFree
  /\ shutdown.pc = "gathering"
  /\ shutdown.stop \in {"waiting", "expired"}
  /\ stop_call.pc = "returned"
  /\ stop_call' = NoStop
  /\ shutdown' = [shutdown EXCEPT !.stop = "done"]
  /\ UNCHANGED <<queue_task, max_queue_size, add_call, delete_call, sweep_call>>
  /\ UNCHANGED <<storeVars, queueVars, handlerVars, registryVars>>

\* cleanup_browser_sessions: get_browser_service(), then
\* wait_for(run_in_executor(None, cleanup_all_sessions), timeout=0.5).
ShutdownBrowserCall ==
  /\ LoopFree
  /\ shutdown.pc = "gathering"
  /\ shutdown.browser = "created"
  /\ bs' = GetBrowserService(bs, NONE, FALSE)
  /\ shutdown' = [shutdown EXCEPT !.browser = "waiting"]
  /\ UNCHANGED <<queue_task, max_queue_size, add_call, stop_call, delete_call,
                 sweep_call>>
  /\ UNCHANGED <<storeVars, queueVars, handlerVars, active_clients,
                 active_sessions, cleanup_call>>

\* The executor's thread starts cleanup_all_sessions, whether or not the
\* child still waits for it.
ShutdownSweepStart ==
  /\ shutdown.browser \in {"waiting", "done"}
  /\ SweepCall

\* cleanup_browser_sessions ends: the sweep returned within 0.5 s, or it did
\* not and wait_for raised TimeoutError (cancelling the executor's future
\* takes effect at once; the thread runs on).
ShutdownBrowserDone(how) ==
  /\ LoopFree
  /\ shutdown.pc = "gathering"
  /\ shutdown.browser = "waiting"
  /\ (how = "completed") = (sweep_call.pc = "returned")
  /\ shutdown' = [shutdown EXCEPT !.browser = "done"]
  /\ ShutdownOnly

\* close_database: wait_for(run_in_executor(None, db_manager.close),
\* timeout=0.3).
ShutdownDbCall ==
  /\ LoopFree
  /\ shutdown.pc = "gathering"
  /\ shutdown.db = "created"
  /\ shutdown' = [shutdown EXCEPT !.db = "waiting"]
  /\ ShutdownOnly

\* close_database ends: close returned within 0.3 s, or it did not.
ShutdownDbDone(how) ==
  /\ LoopFree
  /\ shutdown.pc = "gathering"
  /\ shutdown.db = "waiting"
  /\ how \in {"completed", "timeout"}
  /\ shutdown' = [shutdown EXCEPT !.db = "done"]
  /\ ShutdownOnly

\* All three children have ended: "Parallel cleanup completed", os._exit(0).
ShutdownComplete ==
  /\ LoopFree
  /\ shutdown.pc = "gathering"
  /\ shutdown.stop = "done"
  /\ shutdown.browser = "done"
  /\ shutdown.db = "done"
  /\ shutdown' = [shutdown EXCEPT !.pc = "exited"]
  /\ ShutdownOnly

\* The 1.5 s are over.  The timers of the children expired before this one,
\* so the only child left is stop_order_queue, waiting for stop() to end; it
\* is cancelled, gather ends, and the coordinator calls os._exit(0).
ShutdownOuterTimeout ==
  /\ LoopFree
  /\ shutdown.pc = "gathering"
  /\ shutdown.stop = "expired"
  /\ shutdown.browser = "done"
  /\ shutdown.db = "done"
  /\ shutdown' = [shutdown EXCEPT !.pc = "exited"]
  /\ ShutdownOnly

InitShutdown == Setup(ShutdownOrders, ShutdownTasks) /\ use_postgres = FALSE

\* The scheduler at work on orders of the Nova Act method, and the signal.
NextShutdown ==
  \/ Start
  \/ AddOrder(TRUE, NOVA_ACT, NORMAL)
  \/ PollBegin(TRUE)
  \/ PollWake(TRUE)
  \/ \E t \in TaskIds, outcome \in {"ok", "config_error", "start_error"} :
       TaskRun(t, outcome)
  \/ \E t \in TaskIds, ok \in BOOLEAN : TaskSessionResult(t, ok)
  \/ \E t \in TaskIds, res \in {"success", "failed", "requires_human", "raises"} :
       TaskResult(t, res)
  \/ \E t \in TaskIds, how \in {"completed", "timeout"} : TaskCleanupDone(t, how)
  \/ \E t \in TaskIds : TaskCleanupHangs(t)
  \/ \E t \in TaskIds : TaskCancelled(t)
  \/ ShutdownTrigger
  \/ ShutdownBegin
  \/ ShutdownGather
  \/ ShutdownStopCall
  \/ StopQueueDone
  \/ StopResume
  \/ ShutdownStopTimeout
  \/ ShutdownStopDone
  \/ ShutdownBrowserCall
  \/ ShutdownSweepStart
  \/ \E how \in {"completed", "timeout"} : ShutdownBrowserDone(how)
  \/ ShutdownDbCall
  \/ \E how \in {"completed", "timeout"} : ShutdownDbDone(how)
  \/ ShutdownComplete
  \/ ShutdownOuterTimeout

SpecShutdown == InitShutdown /\ [][NextShutdown]_vars

\* The event loop runs every coroutine that is ready and every timer that
\* has expired, as long as it is free; the executor's thread runs.  Nothing
\* is assumed about the agent: whether start_session, process_order or
\* cleanup ever ends is up to the agent and the remote browser.  Each of
\* these steps stays possible until it is taken or the loop is blocked for
\* good, so weak fairness says it all.
ShutdownFairness ==
  /\ WF_vars(ShutdownBegin)
  /\ WF_vars(ShutdownGather)
  /\ WF_vars(ShutdownStopCall)
  /\ WF_vars(StopQueueDone)
  /\ WF_vars(StopResume)
  /\ WF_vars(ShutdownStopTimeout)
  /\ WF_vars(ShutdownStopDone)
  /\ WF_vars(ShutdownBrowserCall)
  /\ WF_vars(ShutdownSweepStart)
  /\ WF_vars(\E how \in {"completed", "timeout"} : ShutdownBrowserDone(how))
  /\ WF_vars(ShutdownDbCall)
  /\ WF_vars(\E how \in {"completed", "timeout"} : ShutdownDbDone(how))
  /\ WF_vars(ShutdownComplete)
  /\ WF_vars(ShutdownOuterTimeout)
  /\ WF_vars(\E t \in TaskIds : TaskCancelled(t))

SpecShutdownFair == SpecShutdown /\ ShutdownFairness

(***************************************************************************)
(* One agent instance and its callers: process_order and cleanup of        *)
(* NovaActAgent and of StrandsAgent, which treat _is_processing alike.      *)
(***************************************************************************)
\* Only agents changes.
InstanceOnly ==
  UNCHANGED <<storeVars, status, paused, max_concurrent, pollers,
              shutdown_event, processing_orders, active_agents, tasks,
              next_task, strands_lock, strands_active, handlerVars,
              registryVars, lifecycleVars>>

\* A caller calls process_order of agent a.
ProcessOrderCall(a) ==
  /\ LoopFree
  /\ agents[a].is_processing \/ agents[a].executing < MaxCalls
  /\ agents' = ProcessOrderEnter(agents, a)
  /\ InstanceOnly

\* One of the process_order calls executing on agent a ends.
ProcessOrderEnd(a) ==
  /\ LoopFree
  /\ agents[a].executing > 0
  /\ agents' = ProcessOrderLeave(agents, a)
  /\ InstanceOnly

\* cleanup() of agent a, called by anyone, gets to "Reset processing flag".
InstanceCleanup(a) ==
  /\ LoopFree
  /\ agents' = [agents EXCEPT ![a].is_processing = FALSE,
                              ![a].cleanup_invoked = TRUE]
  /\ InstanceOnly

InitInstance == Setup(0, InstanceAgents) /\ use_postgres = FALSE

NextInstance ==
  \/ \E a \in TaskIds : ProcessOrderCall(a)
  \/ \E a \in TaskIds : ProcessOrderEnd(a)
  \/ \E a \in TaskIds : InstanceCleanup(a)

SpecInstance == InitInstance /\ [][NextInstance]_vars

\* A thread that is running keeps running: the steps inside cleanup_session
\* are taken whenever they can be.
SpecRegistryFair ==
  SpecRegistry /\ WF_vars(CleanupPlaywright) /\ WF_vars(CleanupClientStop)
               /\ WF_vars(CleanupSessionExit)

(***************************************************************************)
(* Properties of the scheduler's maps (SpecQueue).                          *)
(***************************************************************************)
\* A task was created in this step.
Dispatched(t) == tasks[t].pc = "unused" /\ tasks'[t].pc # "unused"

\* C1 as stated: in every reachable state the number of entries of
\* processing_orders is at most the current max_concurrent.
C1_EntriesAtMostMaxConcurrent == NumEntries(processing_orders) <= max_concurrent

\* C1, amended: a step that dispatches an order leaves at most max_concurrent
\* entries in processing_orders; the number of entries is above
\* max_concurrent only once update_settings has lowered max_concurrent below
\* it, and it does not grow while it is.
C1_DispatchWithinCapacity ==
  [][/\ (\E t \in TaskIds : Dispatched(t))
          => NumEntries(processing_orders') <= max_concurrent'
     /\ NumEntries(processing_orders') > max_concurrent'
          => /\ NumEntries(processing_orders') <= NumEntries(processing_orders)
             /\ \/ NumEntries(processing_orders) > max_concurrent
                \/ max_concurrent' < max_concurrent]_vars

\* Two tasks are in the map, the queue has been set to one at a time, and the
\* poll loop is alive.
C1_Witness ==
  /\ NumEntries(processing_orders) = 2
  /\ max_concurrent = 1
  /\ pollers.asleep > 0

(***************************************************************************)
(* Properties of get_next_order under concurrent clients (SpecStore).       *)
(***************************************************************************)
\* C2: for any interleaving of concurrent get_next_order calls, no order is
\* returned to two callers, and no order is marked PROCESSING twice (its
\* started_at is written at most once).
C2_NoDuplicateClaim ==
  /\ \A c, d \in DOMAIN db_call :
        c # d => db_call[c].got \cap db_call[d].got = {}
  /\ \A o \in OrderIds : orders[o].started_at <= 1

(***************************************************************************)
(* Properties of the dispatch order (SpecDispatch).                         *)
(***************************************************************************)
\* Order p has a strictly higher priority than order o, or the same priority
\* and an earlier creation time.
Outranks(p, o) ==
  \/ orders[p].priority > orders[o].priority
  \/ orders[p].priority = orders[o].priority /\ created_at(p) < created_at(o)

\* C3: whenever an order o is claimed, no order that is PENDING at that
\* moment (one still PENDING after the step, or one claimed later in the
\* same run of the poll loop) has a strictly higher priority than o, or the
\* same priority and an earlier creation time; and with max_concurrent = 1
\* and orders created as URGENT, NORMAL, HIGH (and no further order PENDING),
\* a dispatch takes the URGENT order while it is PENDING, else the HIGH one,
\* else the NORMAL one.
C3_ClaimsBestPending ==
  [][\A t \in TaskIds : Dispatched(t) =>
        LET o == tasks'[t].order IN
        /\ \A p \in OrderIds : orders'[p].status = PENDING => ~Outranks(p, o)
        /\ \A u \in TaskIds :
              Dispatched(u) /\ u > t => ~Outranks(tasks'[u].order, o)
        /\ ( /\ max_concurrent = 1
             /\ orders[1].priority = URGENT /\ Exists(1)
             /\ orders[2].priority = NORMAL /\ Exists(2)
             /\ orders[3].priority = HIGH /\ Exists(3)
             /\ \A p \in OrderIds \ {1, 2, 3} : orders[p].status # PENDING )
             => o = IF orders[1].status = PENDING THEN 1
                    ELSE IF orders[3].status = PENDING THEN 3 ELSE 2]_vars

\* Orders created as URGENT, NORMAL, HIGH with max_concurrent = 1 have been
\* dispatched in the order URGENT, HIGH, NORMAL.
C3_Witness ==
  /\ max_concurrent = 1
  /\ orders[1].priority = URGENT
  /\ orders[2].priority = NORMAL
  /\ orders[3].priority = HIGH
  /\ tasks[1].order = 1
  /\ tasks[2].order = 3
  /\ tasks[3].order = 2

(***************************************************************************)
(* The live-view endpoints of app.py and an order that waits for a human.   *)
(***************************************************************************)
\* POST /api/orders/{o}/force-disconnect: the agent found in active_agents
\* is removed from the map ("browser session preserved"); without an agent
\* the handler answers success and changes nothing.
ForceDisconnectLiveSession(o) ==
  /\ LoopFree
  /\ active_agents[o] # 0
  /\ active_agents' = ForgetAgent(active_agents, o)
  /\ UNCHANGED lifecycleVars
  /\ UNCHANGED <<storeVars, status, paused, max_concurrent, pollers,
                 shutdown_event, processing_orders, tasks, next_task, agents,
                 strands_lock, strands_active, handlerVars, registryVars>>

\* DELETE /api/live-view/sessions/{sid}: 404 without an agent in
\* active_agents, otherwise the agent is removed from the map.
TerminateLiveSession(sid) ==
  /\ LoopFree
  /\ active_agents[sid] # 0
  /\ active_agents' = [active_agents EXCEPT ![sid] = 0]
  /\ UNCHANGED lifecycleVars
  /\ UNCHANGED <<storeVars, status, paused, max_concurrent, pollers,
                 shutdown_event, processing_orders, tasks, next_task, agents,
                 strands_lock, strands_active, handlerVars, registryVars>>

\* The per-order task with everything that can reach an order waiting for a
\* human: resume, cancel_order, stop(), the expiry sweep, cleanup_session
\* without force, the live-view endpoints and the force delete.
NextHuman ==
  \/ NextAgent
  \/ \E t \in TaskIds : TaskCancelled(t)
  \/ \E o \in OrderIds : CancelOrderCall(o)
  \/ \E o \in OrderIds : CancelOrderResume(o)
  \/ \E o \in OrderIds : CancelOrderDone(o)
  \/ StopCall
  \/ StopQueueDone
  \/ StopResume
  \/ StopDone
  \/ \E idle \in SUBSET OrderIds : SweepExpiredCall(idle)
  \/ SweepExit
  \/ \E sid \in OrderIds : CleanupSessionCall(sid, FALSE, FALSE)
  \/ CleanupSessionExit
  \/ \E o \in OrderIds : ForceDisconnectLiveSession(o)
  \/ \E sid \in OrderIds : TerminateLiveSession(sid)
  \/ \E o \in OrderIds : ForceDeleteCall(o)
  \/ ForceDeleteTaskDone
  \/ \E how \in {"completed", "timeout"} : ForceDeleteAgentDone(how)
  \/ ForceDeleteDone

SpecHuman == InitAgent /\ [][NextHuman]_vars

(***************************************************************************)
(* Properties of cleanup_session (SpecRegistry, SpecRegistryFair).          *)
(***************************************************************************)
\* cleanup_session(sid, force) is called in this step.
CleanupCalled(sid, force) ==
  /\ cleanup_call.pc = "idle"
  /\ cleanup_call'.pc # "idle"
  /\ cleanup_call'.id = sid
  /\ cleanup_call'.force = force

\* C4: a cleanup_session(sid, force=False) called while order sid is
\* REQUIRES_HUMAN returns at once and leaves active_sessions and
\* active_clients as they were, however the registry instance was created.
C4_NonForcedCleanupIsNoOp ==
  [][\A sid \in OrderIds :
        CleanupCalled(sid, FALSE) /\ orders[sid].status = REQUIRES_HUMAN
          => /\ cleanup_call'.pc = "returned"
             /\ active_sessions' = active_sessions
             /\ active_clients' = active_clients]_vars

\* C5: a cleanup_session(sid, force=True) that is releasing the resources
\* of session sid returns with sid in neither active_sessions nor
\* active_clients, also when the stop() of the session's remote browser
\* client never returns.
C5_ForcedCleanupRemoves ==
  \A sid \in 1..RegistrySessions :
    ( /\ cleanup_call.pc \in {"playwright", "client"}
      /\ cleanup_call.id = sid
      /\ cleanup_call.force )
      ~> ( /\ cleanup_call.pc = "returned"
           /\ cleanup_call.id = sid
           /\ active_sessions[sid] = NONE
           /\ active_clients[sid] = 0 )

(***************************************************************************)
(* Properties of the per-order task and of the order's status (Spec).       *)
(***************************************************************************)
\* process_order of task t returns requires_human in this step.
ReturnsRequiresHuman(t) ==
  /\ tasks[t].pc = "processing"
  /\ tasks[t].result # "requires_human"
  /\ tasks'[t].result = "requires_human"

\* C6: when process_order returns requires_human, the task completes in the
\* same step with the order REQUIRES_HUMAN, its session still registered
\* with the registry, the agent's browser client still running, and no
\* cleanup of the agent invoked.
C6_RequiresHumanKeepsSession ==
  [][\A t \in TaskIds : ReturnsRequiresHuman(t) =>
        LET o == tasks[t].order IN
        /\ tasks'[t].pc = "done"
        /\ orders'[o].status = REQUIRES_HUMAN
        /\ active_clients'[o] = t
        /\ agents'[t].client = "running"
        /\ ~agents'[t].cleanup_invoked]_vars

\* A task has completed with requires_human: its order is REQUIRES_HUMAN and
\* its session is registered and running.
C6_Witness ==
  \E t \in TaskIds :
    /\ tasks[t].pc = "done"
    /\ tasks[t].result = "requires_human"
    /\ orders[tasks[t].order].status = REQUIRES_HUMAN
    /\ active_clients[tasks[t].order] = t
    /\ agents[t].client = "running"
    /\ ~agents[t].cleanup_invoked

\* C7: an order that is COMPLETED, FAILED or CANCELLED never changes status.
C7_TerminalAbsorbing ==
  [][\A o \in OrderIds :
        orders[o].status \in {COMPLETED, FAILED, CANCELLED}
          => orders'[o].status = orders[o].status]_vars

\* The edges of the status state machine.
StatusEdges ==
  {<<PENDING, PROCESSING>>, <<PENDING, CANCELLED>>,
   <<PROCESSING, COMPLETED>>, <<PROCESSING, FAILED>>,
   <<PROCESSING, CANCELLED>>, <<PROCESSING, REQUIRES_HUMAN>>,
   <<REQUIRES_HUMAN, PROCESSING>>, <<REQUIRES_HUMAN, MANUAL_CONTROL>>,
   <<MANUAL_CONTROL, PROCESSING>>}

\* C8: every change of the status of an existing order is an edge of the
\* state machine.
C8_StatusFollowsEdges ==
  [][\A o \in OrderIds :
        Exists(o) /\ orders'[o].status # orders[o].status
          => <<orders[o].status, orders'[o].status>> \in StatusEdges]_vars

\* cancel_order(o) returns in this step.
CancelReturns(o) == cancel_call[o].pc # "returned" /\ cancel_call'[o].pc = "returned"

\* Order o is claimed in this step.
Claimed(o) == \E t \in TaskIds : Dispatched(t) /\ tasks'[t].order = o

C10_CancelInFlightEndsTerminal ==
  \A o \in OrderIds :
    ( /\ cancel_call[o].pc = "returned"
      /\ cancel_call[o].in_flight
      /\ cancel_call[o].at_call = PROCESSING )
      => /\ ~cancel_call[o].value
         /\ orders[o].status \in {FAILED, CANCELLED}

(***************************************************************************)
(* Properties of the scheduler's life cycle (SpecLifecycle).                *)
(***************************************************************************)
\* C11: whenever a stop() call has returned, the first or a later one,
\* processing_orders is empty.
C11_StopLeavesMapEmpty ==
  [][stop_call.pc # "returned" /\ stop_call'.pc = "returned"
       => \A o \in OrderIds : processing_orders'[o] = 0]_vars

\* C12: after any sequence of start, stop, pause and resume calls at most one
\* poll loop is alive.
C12_AtMostOnePollLoop == pollers.fresh + pollers.asleep <= 1

Unfinished(t) == tasks[t].pc \notin {"unused", "done", "cancelled"}

\* The automations under way for order o: its unfinished tasks, and the
\* resume handler while it awaits the agent.
Automations(o) ==
  Cardinality({t \in TaskIds : tasks[t].order = o /\ Unfinished(t)})
    + (IF resume_call[o] = "awaiting" THEN 1 ELSE 0)

\* C14: across dispatch, retry and resume, no order ever has more than one
\* automation under way.
C14_OneAutomationPerOrder == \A o \in OrderIds : Automations(o) <= 1

(***************************************************************************)
(* Properties of pause and resume (SpecQueue).                              *)
(***************************************************************************)
\* C17: while the queue is PAUSED no order goes from PENDING to PROCESSING,
\* and a pause() or resume() step itself changes no task, no entry of
\* processing_orders or active_agents and no order.
C17_PauseOnlyStopsClaiming ==
  [][/\ status = PAUSED =>
          \A o \in OrderIds :
            ~(orders[o].status = PENDING /\ orders'[o].status = PROCESSING)
     /\ {status, status'} = {RUNNING, PAUSED} =>
          UNCHANGED <<tasks, processing_orders, active_agents, orders>>]_vars

\* The queue is PAUSED with an order in flight, a PENDING order waiting, room
\* for it in processing_orders, and a poll loop alive.
C17_Witness ==
  /\ status = PAUSED
  /\ \E o \in OrderIds : orders[o].status = PENDING
  /\ \E t \in TaskIds : Unfinished(t) /\ orders[tasks[t].order].status = PROCESSING
  /\ NumEntries(processing_orders) < max_concurrent
  /\ pollers.asleep > 0

(***************************************************************************)
(* Properties of the task's calls into the agent (SpecAgentFair).           *)
(***************************************************************************)
\* The task is suspended in agent.start_session or agent.process_order.
InAgentCall(t) == tasks[t].pc \in {"starting", "processing"}

\* C16: a task that is suspended in the agent's start_session or
\* process_order is eventually past the call: its order is no longer
\* PROCESSING at some later moment, and its entry is gone from
\* processing_orders at some later moment.
C16_AgentCallsBounded ==
  \A t \in 1..AgentTasks, o \in 1..AgentOrders :
    /\ (InAgentCall(t) /\ tasks[t].order = o) ~> (orders[o].status # PROCESSING)
    /\ (InAgentCall(t) /\ tasks[t].order = o) ~> (processing_orders[o] # t)

(***************************************************************************)
(* Properties of the agents' start_session (SpecAgent).                     *)
(***************************************************************************)
\* C20: whichever the agent, start_session never ends by raising: a failure
\* to start the session reaches the task as a returned result.
C20_StartSessionNeverRaises == \A t \in TaskIds : tasks[t].session # "raised"

(***************************************************************************)
(* Properties of cleanup_all_sessions (SpecSweep).                          *)
(***************************************************************************)
\* C18: when cleanup_all_sessions returns, the registry holds no session:
\* active_sessions and active_clients are both empty.
C18_SweepLeavesRegistryEmpty ==
  [][sweep_call.pc # "returned" /\ sweep_call'.pc = "returned"
       => \A sid \in OrderIds :
            active_sessions'[sid] = NONE /\ active_clients'[sid] = 0]_vars

(***************************************************************************)
(* Properties of the force delete (SpecDelete).                             *)
(***************************************************************************)
\* C19: when a force delete of order o returns successfully, o has no entry
\* in processing_orders, none in active_agents and none in the registry.
C19_ForceDeleteLeavesNothing ==
  [][(/\ delete_call.pc # "returned"
      /\ delete_call'.pc = "returned"
      /\ delete_call'.value = "deleted")
       => LET o == delete_call'.order
          IN /\ processing_orders'[o] = 0
             /\ active_agents'[o] = 0
             /\ active_clients'[o] = 0
             /\ active_sessions'[o] = NONE]_vars

\* C15: once shutdown is triggered, the shutdown coordinator always reaches
\* the forced process exit, whatever hangs.  Under SpecShutdownFair.
C15_ShutdownReachesExit == (shutdown.pc # "idle") ~> (shutdown.pc = "exited")

\* C21: for each agent instance at most one process_order call is executing
\* at any time, in every interleaving of process_order calls with cleanup().
C21_OneProcessOrderPerInstance == \A a \in TaskIds : agents[a].executing <= 1

\* C22: as long as stop() has not been called, no outcome of a per-order task
\* (failure, cancellation, removal of its entry) makes a poll loop end.
C22_PollLoopSurvives ==
  [][pollers'.fresh + pollers'.asleep < pollers.fresh + pollers.asleep
       => shutdown_event']_vars

\* C23: when an in-flight task that has created its agent and has not
\* reached requires-human is cancelled (by cancel_order or stop()), it goes
\* through its cleanup path: when it ends the agent's cleanup has been
\* invoked and the agent is no longer in active_agents.
C23_CancelledTaskCleansUp ==
  [][\A t \in TaskIds :
        ( /\ tasks[t].pc \in {"starting", "processing", "cleanup", "exc_cleanup"}
          /\ tasks'[t].pc = "cancelled" )
          => ( /\ agents'[t].cleanup_invoked
               /\ active_agents'[tasks[t].order] # t )]_vars

\* The agent's start_session fails in this step of task t: it raises, or it
\* returns a status other than active.
SessionStartFails(t) ==
  /\ tasks[t].session = NONE
  /\ tasks'[t].session \notin {NONE, "active"}

\* C24: when the agent's session start fails, the order becomes FAILED and
\* the task returns leaving nothing behind: the agent's remote browser
\* session is not running and the registry has no entry for the order.
C24_FailedStartLeavesNothing ==
  [][\A t \in TaskIds :
        SessionStartFails(t)
          => ( /\ orders'[tasks[t].order].status = FAILED
               /\ tasks'[t].pc = "done"
               /\ agents'[t].client # "running"
               /\ active_clients'[tasks[t].order] = 0
               /\ active_sessions'[tasks[t].order] = NONE )]_vars

\* C25: when process_order has returned a success or a failure result, the
\* task completes and the agent is removed from active_agents, whether the
\* agent's cleanup succeeds, raises or exceeds its timeout.  Under
\* SpecCleanupFair.
C25_TaskEndsAfterCleanup ==
  \A t \in 1..AgentTasks :
    (tasks[t].pc = "cleanup")
      ~> (tasks[t].pc = "done" /\ active_agents[tasks[t].order] = 0)

\* An exception reaches the except clause at the boundary of task t in this
\* step: from the configuration lookup or the agent's construction, or after
\* the agent was created.
RaisesInTask(t) ==
  \/ /\ tasks[t].pc = "created"
     /\ \/ tasks'[t].pc = "exc_cleanup"
        \/ tasks'[t].pc = "done" /\ tasks'[t].session = NONE
  \/ /\ tasks[t].pc = "processing"
     /\ \/ tasks'[t].pc = "exc_cleanup"
        \/ tasks'[t].pc = "done" /\ tasks'[t].result = NONE

\* C26: an exception raised inside a per-order task is caught at the task
\* boundary: the order becomes FAILED, a forced cleanup of the task's agent
\* (if it has created one) is attempted, and neither a poll loop nor another
\* task is touched.
C26_ExceptionCaughtAtBoundary ==
  [][\A t \in TaskIds :
        RaisesInTask(t)
          => ( /\ orders'[tasks[t].order].status = FAILED
               /\ tasks[t].pc = "processing" => agents'[t].cleanup_invoked
               /\ pollers' = pollers
               /\ \A u \in TaskIds \ {t} : tasks'[u] = tasks[u] )]_vars

(***************************************************************************)
(* Properties of the registry's removals (SpecExpiry).                      *)
(***************************************************************************)
\* Session sid or the browser client registered under sid leaves the
\* registry in this step.
Removed(sid) ==
  \/ active_sessions[sid] # NONE /\ active_sessions'[sid] = NONE
  \/ active_clients[sid] # 0 /\ active_clients'[sid] = 0

\* C27: whenever a session or a registered browser client leaves the
\* registry, the step that removes it is the one in which cleanup_session
\* has tried the stop() of the remote browser client of that id.
C27_RemovalAttemptsStop ==
  [][\A sid \in OrderIds :
        Removed(sid) => cleanup_call.pc = "client" /\ cleanup_call.id = sid]_vars

(***************************************************************************)
(* Properties of an order that waits for a human (SpecHuman).               *)
(***************************************************************************)
\* The live resources of the order of task t are addressable: its agent is
\* in active_agents and its browser client is registered.
Addressable(t) ==
  /\ active_agents[tasks[t].order] = t
  /\ active_clients[tasks[t].order] # 0

\* A resume or a force delete of order o is under way or begins in this step.
ResumedOrDeleted(o) ==
  \/ resume_call[o] # "idle"
  \/ resume_call'[o] # "idle"
  \/ delete_call.order = o
  \/ delete_call'.order = o

\* C28: once process_order of task t has returned requires_human, no step
\* other than a resume or a force delete of the order takes its agent out of
\* active_agents or its browser client out of the registry.
C28_HumanOrderStaysAddressable ==
  [][\A t \in TaskIds :
        ( /\ tasks[t].result = "requires_human"
          /\ Addressable(t)
          /\ ~ResumedOrDeleted(tasks[t].order) )
          => Addressable(t)']_vars

(***************************************************************************)
(* Properties of the active-agent map (SpecAgent).                          *)
(***************************************************************************)
\* Nothing is at work on order o: each task created for it has ended and no
\* resume request is being handled.
AtRest(o) ==
  /\ {t \in TaskIds : tasks[t].order = o /\ Unfinished(t)} = {}
  /\ resume_call[o] = "idle"

\* C29: an order with an entry in active_agents is PROCESSING,
\* REQUIRES_HUMAN or MANUAL_CONTROL, once its task has ended and no resume
\* is being handled: a COMPLETED, FAILED or CANCELLED order has no entry.
C29_AgentEntryOnlyWhileLive ==
  \A o \in OrderIds :
    active_agents[o] # 0 /\ AtRest(o)
      => orders[o].status \in {PROCESSING, REQUIRES_HUMAN, MANUAL_CONTROL}

(***************************************************************************)
(* Properties of the timestamps of an order row (Spec).                     *)
(***************************************************************************)
\* C30: over claims, progress updates, final status updates, retries and
\* resumes, started_at and completed_at of an order are each written at
\* most once: neither column is ever written a second time.
C30_TimestampsWrittenOnce ==
  \A o \in OrderIds : orders[o].started_at <= 1 /\ orders[o].completed_at <= 1

\* C31: an order whose status is COMPLETED, FAILED or CANCELLED has its
\* completed_at set, whichever operation wrote the status.
C31_TerminalHasCompletedAt ==
  \A o \in OrderIds :
    orders[o].status \in {COMPLETED, FAILED, CANCELLED} => orders[o].completed_at # 0

(***************************************************************************)
(* Properties of the persisted progress (SpecProgress).                     *)
(***************************************************************************)
\* Task t, inside its agent's process_order, takes a step in which it
\* writes the progress of its order: a progress callback, or the mapping of
\* the result.
WritesProgress(t) ==
  /\ tasks[t].pc = "processing"
  /\ orders[tasks[t].order].status = PROCESSING
  /\ tasks'[t] # tasks[t]

\* C32: every progress value a task writes for its PROCESSING order during
\* process_order, the final status mapping included, lies in 0..100 and is
\* not below the value stored before.
C32_ProgressNeverDecreases ==
  [][\A t \in TaskIds :
        WritesProgress(t)
          => /\ orders'[tasks[t].order].progress \in 0..100
             /\ orders'[tasks[t].order].progress >= orders[tasks[t].order].progress]_vars

(***************************************************************************)
(* Properties of the manual-control endpoints (SpecControl).                *)
(***************************************************************************)
\* Manual control of the session of order o is taken in this step.
ControlTaken(o) ==
  /\ active_sessions[o] # "manual"
  /\ active_sessions'[o] = "manual"

\* Manual control of the session of order o is released in this step.
ControlReleased(o) ==
  /\ active_sessions[o] = "manual"
  /\ active_sessions'[o] # "manual"
  /\ active_sessions'[o] # NONE

\* C33: taking manual control of the session of a REQUIRES_HUMAN order
\* leaves the order MANUAL_CONTROL, and releasing the control of a
\* MANUAL_CONTROL order leaves it PROCESSING.
C33_ManualControlTransitions ==
  [][\A o \in OrderIds :
        /\ (ControlTaken(o) /\ orders[o].status = REQUIRES_HUMAN
              => orders'[o].status = MANUAL_CONTROL)
        /\ (ControlReleased(o) /\ orders[o].status = MANUAL_CONTROL
              => orders'[o].status = PROCESSING)]_vars

(***************************************************************************)
(* Properties of orders in flight (SpecLifecycle).                          *)
(***************************************************************************)
\* Something is processing order o: an unfinished task in processing_orders,
\* or a resume request that is being handled.
BeingProcessed(o) ==
  \/ processing_orders[o] # 0 /\ ~Done(tasks, processing_orders[o])
  \/ resume_call[o] # "idle"

\* C34: once the cancel_order and stop() calls that were made have
\* returned, every order whose stored status is PROCESSING is being
\* processed.
C34_ProcessingHasTask ==
  \A o \in OrderIds :
    ( /\ orders[o].status = PROCESSING
      /\ cancel_call[o].pc = "idle"
      /\ stop_call.pc = "idle" )
      => BeingProcessed(o)

(***************************************************************************)
(* Properties of the poll loop's progress (SpecClaimFair).                  *)
(***************************************************************************)
\* C35: an order that is PENDING while the queue is RUNNING is eventually
\* claimed, unless the queue leaves RUNNING first.
C35_PendingEventuallyClaimed ==
  \A o \in 1..QueueOrders :
    (orders[o].status = PENDING /\ status = RUNNING)
      ~> (orders[o].status # PENDING \/ status # RUNNING)

(***************************************************************************)
(* Properties of the queue's flags (SpecLifecycle).                         *)
(***************************************************************************)
\* C36: the paused flag, which get_queue_status reports, is true exactly
\* when the status of the queue is PAUSED.
C36_PausedFlagAgreesWithStatus == paused = (status = PAUSED)

(***************************************************************************)
(* Properties of the review flag (SpecAgent).                               *)
(***************************************************************************)
\* C37: an order whose requires_human_review flag is set, and which
\* get_orders_requiring_human_review therefore lists, is REQUIRES_HUMAN or
\* MANUAL_CONTROL.
C37_ReviewFlagOnlyWhileWaiting ==
  \A o \in OrderIds :
    orders[o].requires_human_review
      => orders[o].status \in {REQUIRES_HUMAN, MANUAL_CONTROL}

(***************************************************************************)
(* Properties of the create-order endpoint (SpecCreate).                    *)
(***************************************************************************)
\* The member of OrderPriority a request priority names.
RequestedPriority(request_priority) ==
  CASE request_priority = "low" -> LOW
    [] request_priority = "normal" -> NORMAL
    [] request_priority = "high" -> HIGH
    [] request_priority = "urgent" -> URGENT

\* C38: an order created through the endpoint with priority low, normal,
\* high or urgent is stored with that priority, which is the one
\* get_next_order sorts by.
C38_StoredPriorityIsRequested ==
  [][\A r \in RequestPriorities, method \in AutomationMethod :
        CreateOrder(r, method) /\ next_id' # next_id
          => orders'[next_id].priority = RequestedPriority(r)]_vars

(***************************************************************************)
(* Properties of the shared BrowserService instance (SpecRegistry).         *)
(***************************************************************************)
\* C39: a get_browser_service call that passes a store leaves the shared
\* instance with a store attached, whatever config it passes and whatever
\* calls came before, and an attached store stays attached.
C39_StoreAttachedOncePassed ==
  [][/\ \A config \in {NOVA_CONFIG, STRANDS_CONFIG} :
          RegistryGet(config, TRUE) => bs'.db_manager
     /\ bs.db_manager => bs'.db_manager]_vars

(***************************************************************************)
(* Properties of StrandsAgent._active_sessions (Spec).                      *)
(***************************************************************************)
\* The agent of task t holds a started session: its client was started and
\* has not been stopped, and its task is still running or has ended by
\* itself and left the agent in active_agents.
HoldsStartedSession(t) ==
  /\ tasks[t].method = STRANDS
  /\ agents[t].client = "running"
  /\ \/ ~Done(tasks, t) /\ tasks[t].pc # "unused"
     \/ tasks[t].pc = "done" /\ active_agents[tasks[t].order] = t

\* C40: an id is in the Strands agents' set of active session ids only while
\* some agent holds a started session for it.
C40_ActiveIdHasStartedSession ==
  \A o \in strands_active :
    \E t \in TaskIds : tasks[t].order = o /\ HoldsStartedSession(t)

====
